---- MODULE Spec2Model ----
(***************************************************************************)
(* Document conversion and packaging pipeline of ocr-mobi (src/app.js):    *)
(* page combination, table inlining, image reference rewriting, the image *)
(* registry, math protection and HTML rendering, the EPUB / output        *)
(* archives, the base64 and XML escaping utilities, and the store of App   *)
(* with the conversions it starts.                                         *)
(*                                                                         *)
(* A JavaScript string is a sequence of one-character strings; a character *)
(* that a string of TLA+ cannot hold (the backquote, and the characters    *)
(* outside ASCII) is written as its code point, such as "U+00A0".  A value *)
(* that the code only tests for truthiness (page.markdown, page.tables,    *)
(* page.images, table.id, table.content, img.id, img.image_base64) is      *)
(* modelled by the empty sequence when it is absent, null or empty: the    *)
(* code takes the same branch in the three cases.                          *)
(***************************************************************************)
EXTENDS Integers, Sequences, FiniteSets, TLC

VARIABLES
    pc,            \* position of the caller of the operation under study
    ocrResult,     \* the caller's OcrResult object: [pages |-> <<page, ...>>]
    given,         \* the pages of ocrResult as they were when the call was made
    rawMarkdown,   \* value returned by combineMarkdown
    markdown,      \* markdown argument of inlineTableContent / processMarkdownImages
    tables,        \* tables argument of inlineTableContent
    imagePrefix,   \* imagePrefix argument of processMarkdownImages
    result,        \* value returned by the first application
    again,         \* value returned when the function is applied to its own output
    originalFileName, \* originalFileName argument of generateOutputZip
    images,        \* the image registry (a Map, in insertion order) built by extractImages
    zip,           \* the JSZip object of generateOutputZip: its entries in insertion order
    epubZip,       \* the JSZip object returned by generateEPUB
    output,        \* the serialized archive generateOutputZip resolves to
    bytes,         \* the bytes of the input of fileToBase64
    encoded,       \* value fileToBase64 resolves to
    decoded,       \* value returned by base64ToBytes: [ok, bytes, message]
    unescaped,     \* argument of escapeXML
    escaped,       \* value returned by escapeXML
    mathJax,       \* the global MathJax: "undefined" or the behaviour of its tex2svg
    blocks,        \* the blocks extractLatexBlocks recorded for generateHTML
    html,          \* body of the document returned by generateHTML
    xhtml,         \* body of OEBPS/content.xhtml as generateEPUB renders it
    htmlContent,   \* value returned by markdownToHtml
    state,         \* the store of App
    runs           \* the calls of processDocument, each with its position

vars == <<pc, ocrResult, given, rawMarkdown, markdown, tables, imagePrefix, result, again,
          originalFileName, images, zip, epubZip, output,
          bytes, encoded, decoded, unescaped, escaped,
          mathJax, blocks, html, xhtml, htmlContent, state, runs>>
docVars == <<ocrResult, given, rawMarkdown>>
fnVars == <<markdown, tables, imagePrefix, result, again>>
zipVars == <<originalFileName, images, zip, epubZip, output>>
utilVars == <<bytes, encoded, decoded, unescaped, escaped>>
renderVars == <<blocks, html, xhtml, htmlContent>>
appVars == <<state, runs>>

-----------------------------------------------------------------------------
(* Bounds of the model.                                                    *)

\* number of items (page starts, text fragments, tables) of a generated OcrResult
MaxItems == 4
\* largest page index of a generated OcrResult (indexes are 0..MaxIndex)
MaxIndex == 1
\* number of items (text fragments, tables) of a generated inlineTableContent call
MaxInline == 4
\* number of fragments of a generated processMarkdownImages markdown
MaxParts == 3
\* number of items (page starts, text fragments, images) of a generated
\* generateOutputZip call
MaxZipItems == 3

\* number of items (page starts, images) of a generated extractImages call
MaxExtract == 5
\* number of pieces of a generated markdown with math
MaxMath == 3
\* number of bytes of a generated fileToBase64 input
MaxBytes == 3
\* number of characters of a generated escapeXML argument
MaxChars == 3
\* number of processDocument calls of a session of App
MaxRuns == 2

-----------------------------------------------------------------------------
(* Strings.                                                                *)

RECURSIVE Flatten(_)
Flatten(ss) == IF ss = <<>> THEN <<>> ELSE Head(ss) \o Flatten(Tail(ss))

\* s.startsWith(pat, i - 1), positions counted from 1
StartsWithAt(s, pat, i) ==
    /\ i + Len(pat) - 1 <= Len(s)
    /\ SubSeq(s, i, i + Len(pat) - 1) = pat

startsWith(s, pat) == StartsWithAt(s, pat, 1)

\* s.indexOf(pat, from - 1) + 1: the first position >= from where pat occurs, 0 if none
RECURSIVE indexOf(_, _, _)
indexOf(s, pat, from) ==
    IF from + Len(pat) - 1 > Len(s) THEN 0
    ELSE IF StartsWithAt(s, pat, from) THEN from
    ELSE indexOf(s, pat, from + 1)

includes(s, pat) == indexOf(s, pat, 1) # 0

\* number of positions of s at which pat occurs
Occurrences(s, pat) == Cardinality({i \in 1..Len(s) : StartsWithAt(s, pat, i)})

\* ECMAScript GetSubstitution for a string pattern (no capture groups): the
\* the backquote, which a string of this module cannot hold: like every such
\* character it is written as its code point, one element of a text
Backquote == "U+0060"

\* replacement text of String.prototype.replace, with $$, $&, $` and $' expanded
\* (a string pattern has no groups, so that $1 and $< stay as they are)
RECURSIVE GetSubstitution(_, _, _, _)
GetSubstitution(matched, str, position, replacement) ==
    IF replacement = <<>> THEN <<>>
    ELSE IF Head(replacement) = "$" /\ Len(replacement) >= 2
    THEN LET c == replacement[2]
             rest == SubSeq(replacement, 3, Len(replacement))
         IN  CASE c = "$" -> <<"$">> \o GetSubstitution(matched, str, position, rest)
               [] c = "&" -> matched \o GetSubstitution(matched, str, position, rest)
               [] c = Backquote -> SubSeq(str, 1, position - 1)
                                \o GetSubstitution(matched, str, position, rest)
               [] c = "'" -> SubSeq(str, position + Len(matched), Len(str))
                                \o GetSubstitution(matched, str, position, rest)
               [] OTHER -> <<"$">> \o GetSubstitution(matched, str, position, Tail(replacement))
    ELSE <<Head(replacement)>> \o GetSubstitution(matched, str, position, Tail(replacement))

\* a mutant of replace: the replacement is inserted even when the pattern is absent
replaceAlways(str, pattern, replacement) ==
    LET position == indexOf(str, pattern, 1)
    IN  IF position = 0 THEN str \o replacement
        ELSE SubSeq(str, 1, position - 1)
                \o GetSubstitution(pattern, str, position, replacement)
                \o SubSeq(str, position + Len(pattern), Len(str))

\* str.replace(pattern, replacement) with a string pattern: the first occurrence only
replace(str, pattern, replacement) ==
    LET position == indexOf(str, pattern, 1)
    IN  IF position = 0 THEN str
        ELSE SubSeq(str, 1, position - 1)
                \o GetSubstitution(pattern, str, position, replacement)
                \o SubSeq(str, position + Len(pattern), Len(str))

\* a mutant of join: a separator follows every element, the last one included
RECURSIVE joinTrailing(_, _)
joinTrailing(strs, sep) ==
    IF strs = <<>> THEN <<>> ELSE Head(strs) \o sep \o joinTrailing(Tail(strs), sep)

\* strs.join(sep)
RECURSIVE join(_, _)
join(strs, sep) ==
    IF strs = <<>> THEN <<>>
    ELSE IF Len(strs) = 1 THEN Head(strs)
    ELSE Head(strs) \o sep \o join(Tail(strs), sep)

-----------------------------------------------------------------------------
(* Page Combiner.                                                          *)

\* the separator of combineMarkdown's join
PageSeparator == <<"\n", "\n", "-", "-", "-", "\n", "\n">>

\* `[${table.id}](${table.id})`
placeholder(id) == <<"[">> \o id \o <<"]", "(">> \o id \o <<")">>

\* if (table.id && table.content)
Inlinable(table) == table.id # <<>> /\ table.content # <<>>

\* the for loop of inlineTableContent
RECURSIVE inlineLoop(_, _)
inlineLoop(res, tbls) ==
    IF tbls = <<>> THEN res
    ELSE LET table == Head(tbls)
         IN  inlineLoop(IF Inlinable(table)
                        THEN replace(res, placeholder(table.id), table.content)
                        ELSE res,
                        Tail(tbls))

inlineTableContent(md, tbls) ==
    IF md = <<>> \/ tbls = <<>> THEN md ELSE inlineLoop(md, tbls)

\* a mutant of insertPage: a page goes before the pages of equal index
insertPageBefore(sorted, page) ==
    LET k == Cardinality({i \in 1..Len(sorted) : sorted[i].index < page.index})
    IN  SubSeq(sorted, 1, k) \o <<page>> \o SubSeq(sorted, k + 1, Len(sorted))

\* one step of the stable sort: page goes after every page whose index is not larger
insertPage(sorted, page) ==
    LET k == Cardinality({i \in 1..Len(sorted) : sorted[i].index <= page.index})
    IN  SubSeq(sorted, 1, k) \o <<page>> \o SubSeq(sorted, k + 1, Len(sorted))

\* pages.sort((a, b) => a.index - b.index): Array.prototype.sort is stable
RECURSIVE sortFrom(_, _)
sortFrom(sorted, pages) ==
    IF pages = <<>> THEN sorted
    ELSE sortFrom(insertPage(sorted, Head(pages)), Tail(pages))

sort(pages) == sortFrom(<<>>, pages)

\* .map(page => inlineTableContent(page.markdown || "", page.tables))
inlinePages(pages) ==
    [i \in 1..Len(pages) |-> inlineTableContent(pages[i].markdown, pages[i].tables)]

\* a mutant of combineMarkdown: every page is inlined with the tables of all pages
combineSharedTables(ocr) ==
    LET sorted == sort(ocr.pages)
        all == Flatten([i \in 1..Len(sorted) |-> sorted[i].tables])
    IN  IF Len(ocr.pages) = 0 THEN <<>>
        ELSE join([i \in 1..Len(sorted) |-> inlineTableContent(sorted[i].markdown, all)],
                  PageSeparator)

combineMarkdown(ocr) ==
    IF Len(ocr.pages) = 0 THEN <<>>
    ELSE join(inlinePages(sort(ocr.pages)), PageSeparator)

\* the caller's pages array after combineMarkdown: sort() sorts it in place
pagesAfterCombine(ocr) ==
    IF Len(ocr.pages) = 0 THEN ocr.pages ELSE sort(ocr.pages)

-----------------------------------------------------------------------------
(* Reference Rewriter.                                                     *)

\* the default imagePrefix, which is also the one every caller passes
DefaultImagePrefix == <<"i", "m", "a", "g", "e", "s", "/">>

HttpScheme == <<"h", "t", "t", "p">>
DataScheme == <<"d", "a", "t", "a", ":">>

\* the match of /!\[([^\]]*)\]\(([^)]+)\)/ that starts at position i, if any:
\* "![", the alt up to the first "]", "(" right after it, a src of one or more
\* characters up to the first ")".  close is the position of "]", end that of ")"
ImageAt(s, i) ==
    LET close == indexOf(s, <<"]">>, i + 2)
        end == indexOf(s, <<")">>, close + 3)
        ok == /\ i + 1 <= Len(s)
              /\ s[i] = "!"
              /\ s[i + 1] = "["
              /\ close # 0
              /\ close + 2 <= Len(s)
              /\ s[close + 1] = "("
              /\ s[close + 2] # ")"
              /\ end # 0
    IN  [ok |-> ok, start |-> i, close |-> IF ok THEN close ELSE 0,
         end |-> IF ok THEN end ELSE 0]

\* a mutant of rewriteReference: a src that starts with http or data: is prefixed too
rewriteReferenceAnySrc(match, alt, src, prefix) ==
    IF ~startsWith(src, prefix)
    THEN <<"!", "[">> \o alt \o <<"]", "(">> \o prefix \o src \o <<")">>
    ELSE match

\* a mutant of rewriteReference: a src that starts with the prefix is prefixed again
rewriteReferenceAgain(match, alt, src, prefix) ==
    IF ~startsWith(src, HttpScheme) /\ ~startsWith(src, DataScheme)
    THEN <<"!", "[">> \o alt \o <<"]", "(">> \o prefix \o src \o <<")">>
    ELSE match

\* a mutant of rewriteReference: the rewritten reference loses its alt text
rewriteReferenceNoAlt(match, alt, src, prefix) ==
    IF ~startsWith(src, HttpScheme) /\ ~startsWith(src, DataScheme)
        /\ ~startsWith(src, prefix)
    THEN <<"!", "[", "]", "(">> \o prefix \o src \o <<")">>
    ELSE match

\* the replacer callback (match, alt, src) => ... of processMarkdownImages
rewriteReference(match, alt, src, prefix) ==
    IF ~startsWith(src, HttpScheme) /\ ~startsWith(src, DataScheme)
        /\ ~startsWith(src, prefix)
    THEN <<"!", "[">> \o alt \o <<"]", "(">> \o prefix \o src \o <<")">>
    ELSE match

\* markdown.replace(/.../g, callback): the matches are found from left to right
\* without overlap, the text between them is copied
RECURSIVE replaceImages(_, _, _)
replaceImages(s, i, prefix) ==
    IF i > Len(s) THEN <<>>
    ELSE LET m == ImageAt(s, i)
         IN  IF m.ok
             THEN rewriteReference(SubSeq(s, i, m.end),
                                   SubSeq(s, i + 2, m.close - 1),
                                   SubSeq(s, m.close + 2, m.end - 1),
                                   prefix)
                      \o replaceImages(s, m.end + 1, prefix)
             ELSE <<s[i]>> \o replaceImages(s, i + 1, prefix)

processMarkdownImages(md, prefix) ==
    IF md = <<>> THEN <<>> ELSE replaceImages(md, 1, prefix)

-----------------------------------------------------------------------------
(* File utilities and escaping.                                            *)

Base64Alphabet ==
    <<"A", "B", "C", "D", "E", "F", "G", "H", "I", "J", "K", "L", "M", "N",
    "O", "P", "Q", "R", "S", "T", "U", "V", "W", "X", "Y", "Z", "a", "b", "c",
    "d", "e", "f", "g", "h", "i", "j", "k", "l", "m", "n", "o", "p", "q", "r",
    "s", "t", "u", "v", "w", "x", "y", "z", "0", "1", "2", "3", "4", "5", "6",
    "7", "8", "9", "+", "/">>

IsBase64Char(c) == \E i \in 1..Len(Base64Alphabet) : Base64Alphabet[i] = c

Base64Value(c) == (CHOOSE i \in 1..Len(Base64Alphabet) : Base64Alphabet[i] = c) - 1

IsAsciiWhitespace(c) == c \in {" ", "\t", "\n", "\f", "\r"}

\* the base64 text of a byte sequence over the alphabet given: 3 bytes give 4
\* characters, a rest of 1 byte gives 2 characters and "==", a rest of 2 bytes
\* gives 3 characters and "="
RECURSIVE EncodeBase64(_, _)
EncodeBase64(bs, alphabet) ==
    IF bs = <<>> THEN <<>>
    ELSE LET c(v) == alphabet[v + 1]
         IN  IF Len(bs) = 1
             THEN << c(bs[1] \div 4), c((bs[1] % 4) * 16), "=", "=" >>
             ELSE IF Len(bs) = 2
             THEN << c(bs[1] \div 4), c((bs[1] % 4) * 16 + bs[2] \div 16),
                     c((bs[2] % 16) * 4), "=" >>
             ELSE << c(bs[1] \div 4), c((bs[1] % 4) * 16 + bs[2] \div 16),
                     c((bs[2] % 16) * 4 + bs[3] \div 64), c(bs[3] % 64) >>
                  \o EncodeBase64(SubSeq(bs, 4, Len(bs)), alphabet)

\* a mutant of btoa: the URL-safe alphabet, "-" and "_" for "+" and "/"
btoaUrlSafe(binary) ==
    EncodeBase64(binary, [i \in 1..64 |-> IF i = 63 THEN "-"
                                          ELSE IF i = 64 THEN "_"
                                          ELSE Base64Alphabet[i]])

\* btoa(binary) for a binary string, given as the sequence of its code units; all
\* are below 256 here, so that btoa does not throw
btoa(binary) == EncodeBase64(binary, Base64Alphabet)

\* fileToBase64(input): bytes.reduce((s, b) => s + String.fromCharCode(b), "") is
\* the binary string with one code unit per byte
fileToBase64(input) == btoa([i \in 1..Len(input) |-> input[i] % 256])

\* the bytes of a run of base64 characters: 4 characters give 3 bytes, a rest of
\* 3 gives 2 bytes and a rest of 2 gives 1 byte, the spare bits being dropped
RECURSIVE DecodeBase64(_)
DecodeBase64(cs) ==
    IF Len(cs) < 2 THEN <<>>
    ELSE LET v(i) == Base64Value(cs[i])
         IN  IF Len(cs) = 2 THEN << v(1) * 4 + v(2) \div 16 >>
             ELSE IF Len(cs) = 3
             THEN << v(1) * 4 + v(2) \div 16, (v(2) % 16) * 16 + v(3) \div 4 >>
             ELSE << v(1) * 4 + v(2) \div 16,
                     (v(2) % 16) * 16 + v(3) \div 4,
                     (v(3) % 4) * 64 + v(4) >>
                  \o DecodeBase64(SubSeq(cs, 5, Len(cs)))

\* atob(data): whitespace is skipped and one or two "=" are taken from the end.
\* The call throws (ok = FALSE) with the message "Invalid character" when a
\* character of the rest is not of the alphabet, with "The string to be decoded
\* is not correctly encoded." when the rest has a length of 4k+1, and with
\* "Invalid character" when "=" was taken and does not fill the text to a
\* multiple of 4.  The wording is the runtime's: these are the messages of Node
atob(data) ==
    LET stripped == SelectSeq(data, LAMBDA c : ~IsAsciiWhitespace(c))
        n == Len(stripped)
        equalsigns ==
            IF n >= 2 /\ stripped[n] = "=" /\ stripped[n - 1] = "=" THEN 2
            ELSE IF n >= 1 /\ stripped[n] = "=" THEN 1
            ELSE 0
        unpadded == SubSeq(stripped, 1, n - equalsigns)
        valid == \A i \in 1..Len(unpadded) : IsBase64Char(unpadded[i])
        remainder == Len(unpadded) % 4 = 1
        padded == equalsigns = 0 \/ n % 4 = 0
        ok == valid /\ ~remainder /\ padded
    IN  [ok |-> ok,
         bytes |-> IF ok THEN DecodeBase64(unpadded) ELSE <<>>,
         message |-> IF ok THEN ""
                     ELSE IF ~valid THEN "Invalid character"
                     ELSE IF remainder
                     THEN "The string to be decoded is not correctly encoded."
                     ELSE "Invalid character"]

\* base64.includes(",") ? base64.split(",")[1] : base64
Base64Payload(base64) ==
    LET first == indexOf(base64, <<",">>, 1)
        second == indexOf(base64, <<",">>, first + 1)
    IN  IF first = 0 THEN base64
        ELSE SubSeq(base64, first + 1, IF second = 0 THEN Len(base64) ELSE second - 1)

\* base64ToBytes: ok = FALSE stands for the exception atob throws
base64ToBytes(base64) == atob(Base64Payload(base64))

\* str.replace(/c/g, rep) for a one-character pattern
RECURSIVE replaceEach(_, _, _)
replaceEach(str, c, rep) ==
    IF str = <<>> THEN <<>>
    ELSE (IF Head(str) = c THEN rep ELSE <<Head(str)>>) \o replaceEach(Tail(str), c, rep)

\* a mutant of escapeXML: "&" is replaced last, after the entities were written
escapeXMLAmpLast(str) ==
    IF str = <<>> THEN <<>>
    ELSE replaceEach(
           replaceEach(
             replaceEach(
               replaceEach(
                 replaceEach(str, "<", <<"&", "l", "t", ";">>),
                 ">", <<"&", "g", "t", ";">>),
               "\"", <<"&", "q", "u", "o", "t", ";">>),
             "'", <<"&", "a", "p", "o", "s", ";">>),
           "&", <<"&", "a", "m", "p", ";">>)

\* escapeXML(str): "" for an empty, null or absent str
escapeXML(str) ==
    IF str = <<>> THEN <<>>
    ELSE replaceEach(
           replaceEach(
             replaceEach(
               replaceEach(
                 replaceEach(str, "&", <<"&", "a", "m", "p", ";">>),
                 "<", <<"&", "l", "t", ";">>),
               ">", <<"&", "g", "t", ";">>),
             "\"", <<"&", "q", "u", "o", "t", ";">>),
           "'", <<"&", "a", "p", "o", "s", ";">>)

-----------------------------------------------------------------------------
(* Resource Extractor.                                                     *)

\* position of the last "." of s, 0 if there is none
RECURSIVE lastIndexOf(_, _, _)
lastIndexOf(s, c, from) ==
    IF from < 1 THEN 0
    ELSE IF s[from] = c THEN from
    ELSE lastIndexOf(s, c, from - 1)

\* id.split(".").pop()
FormatOf(id) == SubSeq(id, lastIndexOf(id, ".", Len(id)) + 1, Len(id))

\* a mutant of MapSet: a known key keeps the value it has
MapSetKeepFirst(map, id, value) ==
    IF \E i \in 1..Len(map) : map[i].id = id THEN map ELSE Append(map, value)

\* images.set(id, value): the value of a known key is replaced where the key is,
\* a new key goes to the end
MapSet(map, id, value) ==
    IF \E i \in 1..Len(map) : map[i].id = id
    THEN [i \in 1..Len(map) |-> IF map[i].id = id THEN value ELSE map[i]]
    ELSE Append(map, value)

\* a mutant of registerImages: an image is registered as soon as it has an id
RECURSIVE registerImagesAnyData(_, _)
registerImagesAnyData(map, imgs) ==
    IF imgs = <<>> THEN map
    ELSE LET img == Head(imgs)
             id == IF img.id # <<>> THEN img.id ELSE img.name
         IN  registerImagesAnyData(
                 IF id # <<>>
                 THEN MapSet(map, id, [id |-> id, data |-> img.image_base64,
                                       format |-> FormatOf(id)])
                 ELSE map,
                 Tail(imgs))

\* the inner loop of extractImages over page.images
RECURSIVE registerImages(_, _)
registerImages(map, imgs) ==
    IF imgs = <<>> THEN map
    ELSE LET img == Head(imgs)
             id == IF img.id # <<>> THEN img.id ELSE img.name
         IN  registerImages(
                 IF id # <<>> /\ img.image_base64 # <<>>
                 THEN MapSet(map, id, [id |-> id, data |-> img.image_base64,
                                       format |-> FormatOf(id)])
                 ELSE map,
                 Tail(imgs))

\* the outer loop of extractImages over ocrResult.pages
RECURSIVE registerPages(_, _)
registerPages(map, pages) ==
    IF pages = <<>> THEN map
    ELSE registerPages(registerImages(map, Head(pages).images), Tail(pages))

extractImages(ocr) == registerPages(<<>>, ocr.pages)

-----------------------------------------------------------------------------
(* Archives.  A JSZip object is the sequence of its file entries in the    *)
(* order the names were first added; directory placeholders are not file   *)
(* entries and are left out.                                               *)

\* an entry added without a compression option
NoCompression == "default"

\* parentFolder(path) of JSZip: the path, without a "/" at its end, up to its
\* last "/"; empty when there is none after the first character
parentFolder(path) ==
    LET bare == IF path # <<>> /\ path[Len(path)] = "/"
                THEN SubSeq(path, 1, Len(path) - 1) ELSE path
        lastSlash == lastIndexOf(bare, "/", Len(bare))
    IN  IF lastSlash > 1 THEN SubSeq(bare, 1, lastSlash - 1) ELSE <<>>

\* folderAdd(name, true) of JSZip: a folder the archive does not hold is added as
\* a directory entry, after the folders above it that the archive does not hold
RECURSIVE folderAdd(_, _)
folderAdd(archive, name) ==
    LET folder == IF name[Len(name)] = "/" THEN name ELSE name \o <<"/">>
        parent == parentFolder(folder)
        above == IF parent = <<>> THEN archive ELSE folderAdd(archive, parent)
    IN  IF \E i \in 1..Len(archive) : archive[i].name = folder THEN archive
        ELSE Append(above, [name |-> folder, data |-> <<>>, compression |-> "STORE",
                            dir |-> TRUE])

\* zip.file(name, data, {compression}) of JSZip 3, whose option createFolders is
\* true by default: the folders of the name are added first, a known name keeps
\* its place and gets the new data, a new name goes to the end; empty data is
\* stored
file(archive, name, data, compression) ==
    LET parent == parentFolder(name)
        folders == IF parent = <<>> THEN archive ELSE folderAdd(archive, parent)
        entry == [name |-> name, data |-> data,
                  compression |-> IF DOMAIN data = {} THEN "STORE" ELSE compression,
                  dir |-> FALSE]
    IN  IF \E i \in 1..Len(folders) : folders[i].name = name
        THEN [i \in 1..Len(folders) |-> IF folders[i].name = name THEN entry ELSE folders[i]]
        ELSE Append(folders, entry)

\* zip.generateAsync({type}) without a compression option: the entries are
\* written in order, each with its own compression or else stored
generateAsync(archive) ==
    [i \in 1..Len(archive) |->
        [archive[i] EXCEPT !.compression =
            IF @ = NoCompression THEN "STORE" ELSE @]]

-----------------------------------------------------------------------------
(* Math Protector.  MathJax is not part of the sources: the model has the  *)
(* three behaviours the code distinguishes, no engine ("undefined"), an    *)
(* engine that renders every expression ("renders") and one whose tex2svg  *)
(* throws on an expression with a backslash command ("rejects").           *)

MathJaxStates == {"undefined", "renders", "rejects"}

\* \s of a regular expression and the characters trim() removes: the ASCII
\* whitespace with the vertical tab, and the spaces and line ends outside
\* ASCII, written as their code points
IsSpace(c) ==
    c \in {" ", "\t", "\n", "", "\f", "\r",
           "U+00A0", "U+1680", "U+2000", "U+2001", "U+2002", "U+2003", "U+2004",
           "U+2005", "U+2006", "U+2007", "U+2008", "U+2009", "U+200A", "U+2028",
           "U+2029", "U+202F", "U+205F", "U+3000", "U+FEFF"}

\* str.trim()
RECURSIVE trim(_)
trim(s) ==
    IF s = <<>> THEN <<>>
    ELSE IF IsSpace(s[1]) THEN trim(Tail(s))
    ELSE IF IsSpace(s[Len(s)]) THEN trim(SubSeq(s, 1, Len(s) - 1))
    ELSE s

\* str.replace(/pat/g, rep) for a literal pattern and a replacement without "$"
RECURSIVE replaceAll(_, _, _)
replaceAll(s, pat, rep) ==
    LET at == indexOf(s, pat, 1)
    IN  IF at = 0 THEN s
        ELSE SubSeq(s, 1, at - 1) \o rep
             \o replaceAll(SubSeq(s, at + Len(pat), Len(s)), pat, rep)

\* decodeHtmlEntities(str): &amp; first, then &lt; &gt; &quot;
decodeHtmlEntities(s) ==
    replaceAll(
      replaceAll(
        replaceAll(
          replaceAll(s, <<"&", "a", "m", "p", ";">>, <<"&">>),
          <<"&", "l", "t", ";">>, <<"<">>),
        <<"&", "g", "t", ";">>, <<">">>),
      <<"&", "q", "u", "o", "t", ";">>, <<"\"">>)

\* the decimal text of a counter
RECURSIVE Decimal(_)
Decimal(n) ==
    LET digit == <<"0", "1", "2", "3", "4", "5", "6", "7", "8", "9">>[(n % 10) + 1]
    IN  IF n < 10 THEN <<digit>> ELSE Decimal(n \div 10) \o <<digit>>

\* `%%LATEX_DISPLAY_${counter}%%`
DisplayPlaceholder(counter) ==
    <<"%", "%", "L", "A", "T", "E", "X", "_", "D", "I", "S", "P", "L", "A", "Y", "_">>
    \o Decimal(counter) \o <<"%", "%">>

\* `%%LATEX_INLINE_${counter}%%`
InlinePlaceholder(counter) ==
    <<"%", "%", "L", "A", "T", "E", "X", "_", "I", "N", "L", "I", "N", "E", "_">>
    \o Decimal(counter) \o <<"%", "%">>

\* /\$\$([\s\S]+?)\$\$/ at position i: the position of the closing "$$", the
\* first one that leaves a character between the delimiters; 0 without a match
DisplayClose(s, i) ==
    IF StartsWithAt(s, <<"$", "$">>, i) THEN indexOf(s, <<"$", "$">>, i + 3) ELSE 0

\* the first position from k on of a "$" or a line end, 0 if there is none
RECURSIVE InlineStop(_, _)
InlineStop(s, k) ==
    IF k > Len(s) THEN 0
    ELSE IF s[k] \in {"$", "\n"} THEN k
    ELSE InlineStop(s, k + 1)

\* /(?<=[\s...]|^)\$([^$\n]+)\$/ at position i: the position of the closing "$",
\* 0 without a match; openers are the characters, besides whitespace, that the
\* lookbehind accepts before the opening "$"
InlineClose(s, i, openers) ==
    IF /\ i <= Len(s)
       /\ s[i] = "$"
       /\ (i = 1 \/ IsSpace(s[i - 1]) \/ s[i - 1] \in openers)
    THEN LET k == InlineStop(s, i + 1)
         IN  IF k > i + 1 /\ s[k] = "$" THEN k ELSE 0
    ELSE 0

\* the first replace of extractLatexBlocks, from position i on: display math
\* becomes a placeholder and a block is pushed; out is the text written so far,
\* found are the blocks so far, whose number is the counter
RECURSIVE extractDisplay(_, _, _, _)
extractDisplay(s, i, out, found) ==
    IF i > Len(s) THEN [markdown |-> out, blocks |-> found]
    ELSE LET close == DisplayClose(s, i)
         IN  IF close # 0
             THEN extractDisplay(s, close + 2,
                      out \o DisplayPlaceholder(Len(found)),
                      Append(found, [placeholder |-> DisplayPlaceholder(Len(found)),
                                     latex |-> trim(SubSeq(s, i + 2, close - 1)),
                                     display |-> TRUE]))
             ELSE extractDisplay(s, i + 1, Append(out, s[i]), found)

\* the second replace of extractLatexBlocks, from position i on: inline math
\* after whitespace or at the start of the text becomes a placeholder
RECURSIVE extractInline(_, _, _, _)
extractInline(s, i, out, found) ==
    IF i > Len(s) THEN [markdown |-> out, blocks |-> found]
    ELSE LET close == InlineClose(s, i, {})
         IN  IF close # 0
             THEN extractInline(s, close + 1,
                      out \o InlinePlaceholder(Len(found)),
                      Append(found, [placeholder |-> InlinePlaceholder(Len(found)),
                                     latex |-> trim(SubSeq(s, i + 1, close - 1)),
                                     display |-> FALSE]))
             ELSE extractInline(s, i + 1, Append(out, s[i]), found)

\* extractLatexBlocks(markdown): { markdown, blocks }
extractLatexBlocks(md) ==
    LET shown == extractDisplay(md, 1, <<>>, <<>>)
    IN  extractInline(shown.markdown, 1, <<>>, shown.blocks)

\* MathJax.tex2svg throws on the expression
tex2svgThrows(latex) == mathJax = "rejects" /\ includes(latex, <<"\\">>)

\* convertLatexToSvg(latex, display) when tex2svg returns: the svg element of the
\* expression, which stands for the markup MathJax draws
convertLatexToSvg(latex, display) ==
    (IF display THEN <<"<", "s", "v", "g", " ", "d", ">">> ELSE <<"<", "s", "v", "g", ">">>)
    \o latex \o <<"<", "/", "s", "v", "g", ">">>

MathDisplayOpen ==
    <<"<", "d", "i", "v", " ", "c", "l", "a", "s", "s", "=", "\"", "m", "a", "t", "h",
      "-", "d", "i", "s", "p", "l", "a", "y", "\"", ">">>
MathDisplayClose == <<"<", "/", "d", "i", "v", ">">>
MathInlineOpen ==
    <<"<", "s", "p", "a", "n", " ", "c", "l", "a", "s", "s", "=", "\"", "m", "a", "t",
      "h", "-", "i", "n", "l", "i", "n", "e", "\"", ">">>
MathInlineClose == <<"<", "/", "s", "p", "a", "n", ">">>

\* the container of a rendered expression
MathWrapper(svg, display) ==
    IF display THEN MathDisplayOpen \o svg \o MathDisplayClose
    ELSE MathInlineOpen \o svg \o MathInlineClose

\* display ? `$$${latex}$$` : `$${latex}$`
DollarSource(latex, display) ==
    IF display THEN <<"$", "$">> \o latex \o <<"$", "$">>
    ELSE <<"$">> \o latex \o <<"$">>

\* the body of the loop of restoreLatexAsSvg: html.replace(placeholder, wrapper),
\* or html.replace(placeholder, original) when the engine throws; the second
\* argument of replace is a string, in which "$" patterns are expanded
restoreBlock(page, block) ==
    IF tex2svgThrows(decodeHtmlEntities(block.latex))
    THEN replace(page, block.placeholder, DollarSource(block.latex, block.display))
    ELSE replace(page, block.placeholder,
                 MathWrapper(convertLatexToSvg(decodeHtmlEntities(block.latex),
                                               block.display),
                             block.display))

RECURSIVE restoreLoop(_, _)
restoreLoop(page, found) ==
    IF found = <<>> THEN page
    ELSE restoreLoop(restoreBlock(page, Head(found)), Tail(found))

\* restoreLatexAsSvg(html, blocks)
restoreLatexAsSvg(page, found) ==
    IF mathJax = "undefined" THEN page ELSE restoreLoop(page, found)

\* the lines of a text
RECURSIVE SplitLines(_)
SplitLines(s) ==
    LET k == indexOf(s, <<"\n">>, 1)
    IN  IF k = 0 THEN <<s>>
        ELSE <<SubSeq(s, 1, k - 1)>> \o SplitLines(SubSeq(s, k + 1, Len(s)))

\* marked renders an image reference as an img element
RECURSIVE renderImages(_, _)
renderImages(s, i) ==
    IF i > Len(s) THEN <<>>
    ELSE LET m == ImageAt(s, i)
         IN  IF m.ok
             THEN <<"<", "i", "m", "g", " ", "s", "r", "c", "=", "\"">>
                  \o SubSeq(s, m.close + 2, m.end - 1)
                  \o <<"\"", " ", "a", "l", "t", "=", "\"">>
                  \o SubSeq(s, i + 2, m.close - 1)
                  \o <<"\"", ">">>
                  \o renderImages(s, m.end + 1)
             ELSE <<s[i]>> \o renderImages(s, i + 1)

\* the paragraph or rule marked writes for a block of lines
renderBlock(lines) ==
    IF lines = << <<"-", "-", "-">> >>
    THEN <<"<", "h", "r", ">", "\n">>
    ELSE <<"<", "p", ">">> \o renderImages(join(lines, <<"\n">>), 1)
         \o <<"<", "/", "p", ">", "\n">>

\* a line that opens an HTML block: it starts with "<div" and a space, a ">", a
\* "/>" or the line end.  div is the block tag of the markup of this pipeline,
\* and no line of the model's texts is indented
OpensHtmlBlock(line) ==
    /\ startsWith(line, <<"<", "d", "i", "v">>)
    /\ \/ Len(line) = 4
       \/ line[5] \in {" ", ">"}
       \/ SubSeq(line, 5, 6) = <<"/", ">">>

RECURSIVE renderLines(_, _)
RECURSIVE htmlBlock(_, _)

\* an HTML block, written as it is: its lines up to a blank line, and the blank
\* lines that follow them; ended says that a blank line was read
htmlBlock(lines, ended) ==
    IF lines = <<>> THEN <<>>
    ELSE IF ended /\ trim(Head(lines)) # <<>> THEN renderLines(lines, <<>>)
    ELSE Head(lines) \o (IF Tail(lines) = <<>> THEN <<>> ELSE <<"\n">>)
         \o htmlBlock(Tail(lines), ended \/ trim(Head(lines)) = <<>>)

\* the blocks of the lines from the front on; open holds the lines of the
\* paragraph that is being read, which a blank line, the first line of an HTML
\* block or the end of the text closes
renderLines(lines, open) ==
    IF lines = <<>>
    THEN IF open = <<>> THEN <<>> ELSE renderBlock(open)
    ELSE IF trim(Head(lines)) = <<>>
    THEN (IF open = <<>> THEN <<>> ELSE renderBlock(open))
         \o renderLines(Tail(lines), <<>>)
    ELSE IF OpensHtmlBlock(Head(lines))
    THEN (IF open = <<>> THEN <<>> ELSE renderBlock(open))
         \o htmlBlock(lines, FALSE)
    ELSE renderLines(Tail(lines), Append(open, trim(Head(lines))))

\* marked.parse(markdown).  marked is not part of the sources; this is what it
\* writes for the markdown of the model's texts: paragraphs of lines, separated
\* by blank lines, a rule for a line of three dashes after a blank line, an img
\* element for an image reference, an HTML block for the lines from one that
\* starts with a div tag to a blank line, other text and markup as it is
markedParse(md) == renderLines(SplitLines(md), <<>>)

\* the pipeline of generateHTML on its markdown argument: protect, render, restore
htmlBody(md) ==
    LET safe == extractLatexBlocks(md)
    IN  restoreLatexAsSvg(markedParse(safe.markdown), safe.blocks)

\* latexToSvg(tex, display) of the variant of the pipeline without placeholders
latexToSvg(tex, display) ==
    LET source ==
            replaceAll(
              replaceAll(
                replaceAll(trim(tex), <<"&", "a", "m", "p", ";">>, <<"&">>),
                <<"&", "l", "t", ";">>, <<"<">>),
              <<"&", "g", "t", ";">>, <<">">>)
    IN  IF mathJax = "undefined" \/ tex2svgThrows(source)
        THEN DollarSource(tex, display)
        ELSE MathWrapper(convertLatexToSvg(source, display), display)

\* the two replace calls of markdownToHtml, from position i on; the callbacks
\* return latexToSvg's markup, which is written as it is
RECURSIVE svgDisplay(_, _)
svgDisplay(s, i) ==
    IF i > Len(s) THEN <<>>
    ELSE LET close == DisplayClose(s, i)
         IN  IF close # 0
             THEN latexToSvg(SubSeq(s, i + 2, close - 1), TRUE) \o svgDisplay(s, close + 2)
             ELSE <<s[i]>> \o svgDisplay(s, i + 1)

RECURSIVE svgInline(_, _)
svgInline(s, i) ==
    IF i > Len(s) THEN <<>>
    ELSE LET close == InlineClose(s, i, {"(", "[", "-", ":"})
         IN  IF close # 0
             THEN latexToSvg(SubSeq(s, i + 1, close - 1), FALSE) \o svgInline(s, close + 1)
             ELSE <<s[i]>> \o svgInline(s, i + 1)

\* markdownToHtml(markdown) of the variant without placeholders.  The markup of
\* the expressions goes through marked here, which writes a math-display div at
\* the start of a line as an HTML block, without a paragraph
markdownToHtml(md) ==
    IF md = <<>> THEN <<>> ELSE markedParse(svgInline(svgDisplay(md, 1), 1))


-----------------------------------------------------------------------------
(* EPUB Packager.                                                          *)

MimetypeName == <<"m", "i", "m", "e", "t", "y", "p", "e">>
MimetypeContent == 
    <<"a", "p", "p", "l", "i", "c", "a", "t", "i", "o", "n", "/", "e", "p",
    "u", "b", "+", "z", "i", "p">>
ContainerName == 
    <<"M", "E", "T", "A", "-", "I", "N", "F", "/", "c", "o", "n", "t", "a",
    "i", "n", "e", "r", ".", "x", "m", "l">>
PackageName == 
    <<"O", "E", "B", "P", "S", "/", "c", "o", "n", "t", "e", "n", "t", ".",
    "o", "p", "f">>
NavName == 
    <<"O", "E", "B", "P", "S", "/", "n", "a", "v", ".", "x", "h", "t", "m",
    "l">>
ContentName == 
    <<"O", "E", "B", "P", "S", "/", "c", "o", "n", "t", "e", "n", "t", ".",
    "x", "h", "t", "m", "l">>
EpubImageFolder == 
    <<"O", "E", "B", "P", "S", "/", "i", "m", "a", "g", "e", "s", "/">>
ContentHref == 
    <<"c", "o", "n", "t", "e", "n", "t", ".", "x", "h", "t", "m", "l">>
NavHref == <<"n", "a", "v", ".", "x", "h", "t", "m", "l">>
XhtmlType == 
    <<"a", "p", "p", "l", "i", "c", "a", "t", "i", "o", "n", "/", "x", "h",
    "t", "m", "l", "+", "x", "m", "l">>
PngName == <<"p", "n", "g">>
GifName == <<"g", "i", "f">>
WebpName == <<"w", "e", "b", "p">>
PngType == <<"i", "m", "a", "g", "e", "/", "p", "n", "g">>
GifType == <<"i", "m", "a", "g", "e", "/", "g", "i", "f">>
WebpType == <<"i", "m", "a", "g", "e", "/", "w", "e", "b", "p">>
JpegType == <<"i", "m", "a", "g", "e", "/", "j", "p", "e", "g">>

\* a mutant of ImageMimeType: webp has no type of its own
ImageMimeTypeNoWebp(format) ==
    IF format = PngName THEN PngType
    ELSE IF format = GifName THEN GifType
    ELSE JpegType

\* img.format === "png" ? ... : "image/jpeg"
ImageMimeType(format) ==
    IF format = PngName THEN PngType
    ELSE IF format = GifName THEN GifType
    ELSE IF format = WebpName THEN WebpType
    ELSE JpegType

\* /[a-z0-9]/i
IsAlphanumeric(c) == \E i \in 1..62 : Base64Alphabet[i] = c

\* id.replace(/[^a-z0-9]/gi, "_")
SafeId(id) == [i \in 1..Len(id) |-> IF IsAlphanumeric(id[i]) THEN id[i] ELSE "_"]

\* a mutant of imageManifest: the href is the bare id, without the images folder
imageManifestBareHref(imgs) ==
    [i \in 1..Len(imgs) |->
        [id |-> SafeId(imgs[i].id),
         href |-> imgs[i].id,
         mediaType |-> ImageMimeType(imgs[i].format)]]

\* step 4 of generateEPUB: one manifest item per registry image
imageManifest(imgs) ==
    [i \in 1..Len(imgs) |->
        [id |-> SafeId(imgs[i].id),
         href |-> DefaultImagePrefix \o imgs[i].id,
         mediaType |-> ImageMimeType(imgs[i].format)]]

\* META-INF/container.xml: its rootfile
containerDocument == [rootfile |-> PackageName]

\* OEBPS/content.opf: title, manifest and spine (the random identifier and the
\* timestamp are read by nothing)
packageDocument(imgs, title) ==
    [title |-> escapeXML(title),
     manifest |-> << [id |-> <<"c", "o", "n", "t", "e", "n", "t">>,
                      href |-> ContentHref, mediaType |-> XhtmlType],
                     [id |-> <<"n", "a", "v">>,
                      href |-> NavHref, mediaType |-> XhtmlType] >>
                  \o imageManifest(imgs),
     spine |-> << <<"c", "o", "n", "t", "e", "n", "t">> >>]

\* OEBPS/nav.xhtml: its one table-of-contents link
navDocument(title) == [href |-> ContentHref, label |-> escapeXML(title)]

\* a mutant of contentDocument: the body is rendered without the math protector
contentDocumentUnprotected(md, title) ==
    [title |-> escapeXML(title),
     body |-> markedParse(processMarkdownImages(md, DefaultImagePrefix))]

\* OEBPS/content.xhtml: the title and the body, which step 7 of generateEPUB makes
\* of the rewritten markdown: protect, render, restore
contentDocument(md, title) ==
    LET processedMarkdown == processMarkdownImages(md, DefaultImagePrefix)
        safe == extractLatexBlocks(processedMarkdown)
        page == markedParse(safe.markdown)
    IN  [title |-> escapeXML(title),
         body |-> restoreLatexAsSvg(page, safe.blocks)]

\* a mutant of addImages: the images are filed outside the OEBPS folder
RECURSIVE addImagesOutside(_, _, _)
addImagesOutside(archive, folder, imgs) ==
    IF imgs = <<>> THEN archive
    ELSE addImagesOutside(file(archive, DefaultImagePrefix \o Head(imgs).id,
                               base64ToBytes(Head(imgs).data).bytes, NoCompression),
                          folder, Tail(imgs))

\* images.forEach((img, id) => zip.file(`${folder}${id}`, base64ToBytes(img.data))):
\* the archive with the images filed, up to the first one on which
\* base64ToBytes throws, which ends the loop
RECURSIVE addImages(_, _, _)
addImages(archive, folder, imgs) ==
    IF imgs = <<>> \/ ~base64ToBytes(Head(imgs).data).ok THEN archive
    ELSE addImages(file(archive, folder \o Head(imgs).id,
                        base64ToBytes(Head(imgs).data).bytes, NoCompression),
                   folder, Tail(imgs))

\* base64ToBytes throws for one of the images
DecodeThrows(imgs) == \E i \in 1..Len(imgs) : ~base64ToBytes(imgs[i].data).ok

\* steps 2 to 7 of generateEPUB, on the archive given
addDocuments(archive, md, imgs, title) ==
    file(file(file(file(archive,
        ContainerName, containerDocument, NoCompression),
        PackageName, packageDocument(imgs, title), NoCompression),
        NavName, navDocument(title), NoCompression),
        ContentName, contentDocument(md, title), NoCompression)

\* a mutant of generateEPUB: the mimetype entry is added after the other entries
generateEPUBMimetypeLast(md, imgs, title) ==
    file(addImages(addDocuments(<<>>, md, imgs, title), EpubImageFolder, imgs),
         MimetypeName, MimetypeContent, "STORE")

\* generateEPUB(markdown, images, title), when base64ToBytes does not throw
generateEPUB(md, imgs, title) ==
    addImages(
        addDocuments(file(<<>>, MimetypeName, MimetypeContent, "STORE"),
                     md, imgs, title),
        EpubImageFolder, imgs)

-----------------------------------------------------------------------------
(* HTML Renderer and Output Assembler.                                     *)

DefaultTitle == <<"D", "o", "c", "u", "m", "e", "n", "t">>
ContentMdName == <<"c", "o", "n", "t", "e", "n", "t", ".", "m", "d">>
ContentHtmlName == 
    <<"c", "o", "n", "t", "e", "n", "t", ".", "h", "t", "m", "l">>
ContentEpubName == 
    <<"c", "o", "n", "t", "e", "n", "t", ".", "e", "p", "u", "b">>

\* originalFileName.replace(/\.[^.]+$/, "") || "Document"
TitleOf(name) ==
    LET dot == lastIndexOf(name, ".", Len(name))
        stem == IF dot # 0 /\ dot < Len(name) THEN SubSeq(name, 1, dot - 1) ELSE name
    IN  IF stem = <<>> THEN DefaultTitle ELSE stem

\* generateHTML(markdown, title): the title and the body of the document
generateHTML(md, title) == [title |-> escapeXML(title), body |-> htmlBody(md)]

\* a mutant of flatEntries: the images folder is not filled
flatEntriesNoImages(raw, imgs, title) ==
    LET processedMarkdown == processMarkdownImages(raw, DefaultImagePrefix)
    IN  file(file(<<>>, ContentMdName, processedMarkdown, NoCompression),
             ContentHtmlName, generateHTML(processedMarkdown, title), NoCompression)

\* generateOutputZip up to the call of generateEPUB: content.md, content.html and
\* the images folder, which holds the images before the one the call throws on
flatEntries(raw, imgs, title) ==
    LET processedMarkdown == processMarkdownImages(raw, DefaultImagePrefix)
    IN  addImages(
            file(file(<<>>, ContentMdName, processedMarkdown, NoCompression),
                 ContentHtmlName, generateHTML(processedMarkdown, title), NoCompression),
            DefaultImagePrefix, imgs)

-----------------------------------------------------------------------------
(* App.  The store is a record with the fields of createStore; null is the *)
(* empty string for error, NoOutput for outputZip and NoFile for file.     *)
(* The two option checkboxes, read by the OCR request only, and            *)
(* downloadZip, which changes nothing of the store, are left out.          *)

\* state.file === null (a File of the model has a name)
NoFile == [name |-> <<>>, text |-> <<>>]

\* state.outputZip === null (a bundle has a title)
NoOutput == [markdown |-> <<>>, images |-> <<>>, title |-> <<>>]

\* generateOutputZip(ocrResult, originalFileName) as App sees it: the error its
\* promise is rejected with when atob rejects the data of an image, which is the
\* error of the first such image of the registry, or else the bundle, held
\* as the three values its entries are made of: the rewritten markdown
\* (content.md, and the source of content.html and of the EPUB), the image
\* registry and the title
generateOutputZip(ocr, name) ==
    LET rawMarkdown_ == combineMarkdown(ocr)
        images_ == extractImages([ocr EXCEPT !.pages = pagesAfterCombine(ocr)])
    IN  IF DecodeThrows(images_)
        THEN LET first == CHOOSE i \in 1..Len(images_) :
                              /\ ~base64ToBytes(images_[i].data).ok
                              /\ \A j \in 1..(i - 1) : base64ToBytes(images_[j].data).ok
             IN  [threw |-> TRUE, message |-> base64ToBytes(images_[first].data).message]
        ELSE [threw |-> FALSE,
              value |-> [markdown |-> processMarkdownImages(rawMarkdown_, DefaultImagePrefix),
                         images |-> images_,
                         title |-> TitleOf(name)]]

\* the files the user can select or drop; text is what the document reads
Files ==
    { [name |-> <<"a", ".", "p", "d", "f">>, text |-> <<"A">>],
      [name |-> <<"b", ".", "p", "n", "g">>, text |-> <<"B">>] }

\* the values of the API key field
ApiKeys == {"", "key"}

\* the outcomes of performOCR(file, apiKey): the response body of a successful
\* call, without or with an image whose data is not base64, or the error thrown
\* for a response that is not ok, or for a rejected fetch, here with an empty message
performOCR(f) ==
    { [threw |-> FALSE,
       value |-> [pages |-> << [index |-> 0, markdown |-> f.text, tables |-> <<>>,
                                images |-> <<>>] >>]],
      [threw |-> FALSE,
       value |-> [pages |-> << [index |-> 0, markdown |-> f.text, tables |-> <<>>,
                                images |-> << [id |-> <<"b">>, name |-> <<>>,
                                               image_base64 |-> <<"!">>] >>] >>]],
      [threw |-> TRUE, message |-> "OCR failed: 500"],
      [threw |-> TRUE, message |-> ""] }

\* the OCR results and the file names of the model, and the outcome of
\* generateOutputZip for each pair of them
OcrResults == {o.value : o \in {x \in UNION {performOCR(f) : f \in Files} : ~x.threw}}
FileNames == {f.name : f \in Files}
outputZips ==
    [ocr \in OcrResults, name \in FileNames |-> generateOutputZip(ocr, name)]

\* setState(changes): the fields named are replaced, the others kept
setState(store, changes) ==
    [k \in DOMAIN store |-> IF k \in DOMAIN changes THEN changes[k] ELSE store[k]]

\* the initial store, with the API key read from localStorage
createStore(apiKey) ==
    [apiKey |-> apiKey, file |-> NoFile, status |-> "idle", progress |-> 0,
     statusMessage |-> "", outputZip |-> NoOutput, outputFileName |-> <<>>, error |-> ""]

BusyStatuses == {"uploading", "processing", "converting"}

\* isLoading()
isLoading(store) == store.status \in BusyStatuses

\* canProcess()
canProcess(store) ==
    IF store.apiKey = "" \/ store.file = NoFile THEN FALSE ELSE ~isLoading(store)

\* onFile of FileUpload
onFile(store, f) ==
    setState(store, [file |-> f, status |-> "idle", error |-> "", outputZip |-> NoOutput])

\* resetState()
resetState(store) ==
    setState(store, [file |-> NoFile, status |-> "idle", progress |-> 0,
                     statusMessage |-> "", outputZip |-> NoOutput,
                     outputFileName |-> <<>>, error |-> ""])

\* a mutant of catchError: the error is recorded, the status is left as it is
catchErrorSilent(store, message) ==
    setState(store, [error |-> IF message = "" THEN "An unexpected error occurred"
                               ELSE message])

\* the catch block of processDocument
catchError(store, message) ==
    setState(store, [status |-> "error", progress |-> 0, statusMessage |-> "",
                     error |-> IF message = "" THEN "An unexpected error occurred"
                               ELSE message])

\* the message of the TypeError of state.file.name when state.file is null
NullFileMessage == "Cannot read properties of null (reading 'name')"

\* name.replace(/\.[^.]+$/, "")
StripExtension(name) ==
    LET dot == lastIndexOf(name, ".", Len(name))
    IN  IF dot # 0 /\ dot < Len(name) THEN SubSeq(name, 1, dot - 1) ELSE name

OcrZipSuffix == <<"-", "o", "c", "r", ".", "z", "i", "p">>

\* processDocument up to the await of performOCR: the two setState calls
startProcessing(store) ==
    setState(
        setState(store, [status |-> "uploading", progress |-> 10,
                         statusMessage |-> "Preparing document...", error |-> "",
                         outputZip |-> NoOutput]),
        [status |-> "processing", progress |-> 30,
         statusMessage |-> "Sending to Mistral OCR..."])

\* processDocument after performOCR resolved, up to the await of generateOutputZip
startConverting(store) ==
    setState(store, [status |-> "converting", progress |-> 60,
                     statusMessage |-> "Converting to multiple formats..."])

\* processDocument after generateOutputZip resolved
finishProcessing(store, blob) ==
    setState(store, [status |-> "complete", progress |-> 100,
                     statusMessage |-> "Processing complete!", outputZip |-> blob,
                     outputFileName |-> StripExtension(store.file.name) \o OcrZipSuffix])

-----------------------------------------------------------------------------
(* Generated inputs.  An input is built from a sequence of items, so that  *)
(* one bound covers the number of pages, the length of the texts and the   *)
(* number of tables together.                                              *)

Scripts(items, n) == UNION {[1..k -> items] : k \in 0..n}

\* the fragments a page's markdown is made of: text, a blank line, a rule, a table link
DocTexts ==
    { <<"a">>, <<"\n", "\n">>, <<"-", "-", "-">>, <<"[", "t", "]", "(", "t", ")">> }

\* the tables a page may carry
DocTables == { [id |-> <<"t">>, content |-> <<"-", "-", "-">>] }

DocItems ==
    {[kind |-> "page", index |-> i] : i \in 0..MaxIndex}
    \cup {[kind |-> "text", text |-> t] : t \in DocTexts}
    \cup {[kind |-> "table", table |-> t] : t \in DocTables}

\* the pages an item sequence describes: a page item starts a page, a text item
\* extends the markdown of the last page, a table or image item is added to its
\* tables or images
RECURSIVE BuildPages(_, _)
BuildPages(pages, script) ==
    IF script = <<>> THEN pages
    ELSE LET it == Head(script)
             last == Len(pages)
         IN  BuildPages(
                 CASE it.kind = "page" ->
                        Append(pages, [index |-> it.index, markdown |-> <<>>,
                                       tables |-> <<>>, images |-> <<>>])
                   [] it.kind = "text" ->
                        [pages EXCEPT ![last].markdown = @ \o it.text]
                   [] it.kind = "table" ->
                        [pages EXCEPT ![last].tables = Append(@, it.table)]
                   [] it.kind = "image" ->
                        [pages EXCEPT ![last].images = Append(@, it.image)],
                 Tail(script))

DocScripts == {s \in Scripts(DocItems, MaxItems) : s = <<>> \/ s[1].kind = "page"}

\* the fragments and tables of a generated inlineTableContent call
InlineTexts ==
    { <<"a">>, <<"[", "t", "]", "(", "t", ")">>, <<"[", "u", "]", "(", "u", ")">> }

InlineTables ==
    {[id |-> i, content |-> c] :
        i \in { <<"t">>, <<"u">> },
        c \in { <<"X">>, <<"[", "u", "]", "(", "u", ")">>, <<"$", "&">> }}
    \cup { [id |-> <<"t">>, content |-> <<>>] }

InlineItems ==
    {[kind |-> "text", text |-> t] : t \in InlineTexts}
    \cup {[kind |-> "table", table |-> t] : t \in InlineTables}

ScriptText(script) ==
    Flatten([i \in 1..Len(script) |->
                IF script[i].kind = "text" THEN script[i].text ELSE <<>>])

ScriptTables(script) ==
    Flatten([i \in 1..Len(script) |->
                IF script[i].kind = "table" THEN <<script[i].table>> ELSE <<>>])

-----------------------------------------------------------------------------
(* Specifications.                                                         *)

NoDoc == ocrResult = [pages |-> <<>>] /\ given = <<>> /\ rawMarkdown = <<>>

NoCall ==
    /\ markdown = <<>> /\ tables = <<>> /\ imagePrefix = <<>>
    /\ result = <<>> /\ again = <<>>

NoZip ==
    /\ originalFileName = <<>> /\ images = <<>> /\ zip = <<>>
    /\ epubZip = <<>> /\ output = <<>>

NoUtil ==
    /\ bytes = <<>> /\ encoded = <<>> /\ decoded = [ok |-> TRUE, bytes |-> <<>>, message |-> ""]
    /\ unescaped = <<>> /\ escaped = <<>>

NoRender == blocks = <<>> /\ html = <<>> /\ xhtml = <<>> /\ htmlContent = <<>>

NoApp == state = createStore("") /\ runs = <<>>

\* combineMarkdown applied to a generated OcrResult
InitCombine ==
    /\ pc = "input"
    /\ NoUtil
    /\ mathJax = "undefined"
    /\ NoApp
    /\ NoRender
    /\ \E s \in DocScripts : ocrResult = [pages |-> BuildPages(<<>>, s)]
    /\ given = <<>>
    /\ rawMarkdown = <<>>
    /\ NoCall
    /\ NoZip

CombineMarkdown ==
    /\ pc = "input"
    /\ given' = ocrResult.pages
    /\ rawMarkdown' = combineMarkdown(ocrResult)
    /\ ocrResult' = [ocrResult EXCEPT !.pages = pagesAfterCombine(ocrResult)]
    /\ pc' = "combined"
    /\ UNCHANGED <<utilVars, mathJax, appVars, renderVars,
                   fnVars, zipVars>>

SpecCombine == InitCombine /\ [][CombineMarkdown]_vars

\* inlineTableContent applied to a generated markdown and table list, then to its output
InitInline ==
    /\ pc = "input"
    /\ NoUtil
    /\ mathJax = "undefined"
    /\ NoApp
    /\ NoRender
    /\ \E s \in Scripts(InlineItems, MaxInline) :
          markdown = ScriptText(s) /\ tables = ScriptTables(s)
    /\ imagePrefix = <<>>
    /\ result = <<>>
    /\ again = <<>>
    /\ NoDoc
    /\ NoZip

InlineTableContent ==
    /\ pc = "input"
    /\ result' = inlineTableContent(markdown, tables)
    /\ pc' = "inlined"
    /\ UNCHANGED <<utilVars, mathJax, appVars, renderVars,
                   docVars, zipVars, markdown, tables, imagePrefix, again>>

InlineAgain ==
    /\ pc = "inlined"
    /\ again' = inlineTableContent(result, tables)
    /\ pc' = "reinlined"
    /\ UNCHANGED <<utilVars, mathJax, appVars, renderVars,
                   docVars, zipVars, markdown, tables, imagePrefix, result>>

NextInline == InlineTableContent \/ InlineAgain

SpecInline == InitInline /\ [][NextInline]_vars

\* the fragments of a generated processMarkdownImages markdown: image references
\* with a relative, http, data: and already prefixed src, a link, and loose pieces
RewriteParts ==
    { <<"!", "[", "a", "]", "(", "x", ")">>,
      <<"!", "[", "]", "(", "h", "t", "t", "p", ":", "x", ")">>,
      <<"!", "[", "a", "]", "(", "d", "a", "t", "a", ":", "x", ")">>,
      <<"!", "[", "a", "]", "(", "i", "m", "a", "g", "e", "s", "/", "x", ")">>,
      <<"[", "a", "]", "(", "x", ")">>,
      <<"!", "[">>,
      <<")">>,
      <<"x">> }

RewritePrefixes == { DefaultImagePrefix, <<"p", "/">>, <<"p", ")">>, <<>> }

\* processMarkdownImages applied to a generated markdown, then to its output
InitRewrite ==
    /\ pc = "input"
    /\ NoUtil
    /\ mathJax = "undefined"
    /\ NoApp
    /\ NoRender
    /\ \E s \in Scripts(RewriteParts, MaxParts) : markdown = Flatten(s)
    /\ imagePrefix \in RewritePrefixes
    /\ tables = <<>>
    /\ result = <<>>
    /\ again = <<>>
    /\ NoDoc
    /\ NoZip

ProcessMarkdownImages ==
    /\ pc = "input"
    /\ result' = processMarkdownImages(markdown, imagePrefix)
    /\ pc' = "rewritten"
    /\ UNCHANGED <<utilVars, mathJax, appVars, renderVars,
                   docVars, zipVars, markdown, tables, imagePrefix, again>>

ProcessAgain ==
    /\ pc = "rewritten"
    /\ again' = processMarkdownImages(result, imagePrefix)
    /\ pc' = "rewritten twice"
    /\ UNCHANGED <<utilVars, mathJax, appVars, renderVars,
                   docVars, zipVars, markdown, tables, imagePrefix, result>>

NextRewrite == ProcessMarkdownImages \/ ProcessAgain

SpecRewrite == InitRewrite /\ [][NextRewrite]_vars

\* the fragments, images and file names of a generated generateOutputZip call:
\* images with an id or only a name, the same id with other data, a data URL,
\* an image without data, data that is not base64, a webp image, and two images
\* whose ids differ from another manifest id only outside the letters and digits
ZipTexts == { <<"a">>, <<"!", "[", "]", "(", "i", ".", "p", "n", "g", ")">> }

ZipImages ==
    { [id |-> <<"i", ".", "p", "n", "g">>, name |-> <<>>, image_base64 |-> <<"Q", "Q", "=", "=">>],
      [id |-> <<"i", ".", "p", "n", "g">>, name |-> <<>>, image_base64 |-> <<"Q", "U", "I", "=">>],
      [id |-> <<"j">>, name |-> <<>>, image_base64 |-> <<"d", ",", "Q", "Q", "=", "=">>],
      [id |-> <<>>, name |-> <<"n", ".", "g", "i", "f">>, image_base64 |-> <<"Q", "Q">>],
      [id |-> <<"k", ".", "w", "e", "b", "p">>, name |-> <<>>, image_base64 |-> <<>>],
      [id |-> <<"b">>, name |-> <<>>, image_base64 |-> <<"!">>],
      [id |-> <<"w", ".", "w", "e", "b", "p">>, name |-> <<>>, image_base64 |-> <<"Q", "Q", "=", "=">>],
      [id |-> <<"i", "_", "p", "n", "g">>, name |-> <<>>, image_base64 |-> <<"Q", "Q", "=", "=">>],
      [id |-> <<"n", "a", "v">>, name |-> <<>>, image_base64 |-> <<"Q", "Q", "=", "=">>] }

ZipItems ==
    {[kind |-> "page", index |-> i] : i \in 0..MaxIndex}
    \cup {[kind |-> "text", text |-> t] : t \in ZipTexts}
    \cup {[kind |-> "image", image |-> t] : t \in ZipImages}

ZipScripts == {s \in Scripts(ZipItems, MaxZipItems) : s = <<>> \/ s[1].kind = "page"}

ZipFileNames == { <<"a", ".", "p", "d", "f">>, <<".", "p", "d", "f">>, <<"a", "&", "b">> }

\* generateOutputZip applied to a generated OcrResult and file name
InitZip ==
    /\ pc = "input"
    /\ NoUtil
    /\ mathJax = "undefined"
    /\ NoApp
    /\ NoRender
    /\ \E s \in ZipScripts : ocrResult = [pages |-> BuildPages(<<>>, s)]
    /\ originalFileName \in ZipFileNames
    /\ given = <<>>
    /\ rawMarkdown = <<>>
    /\ images = <<>>
    /\ zip = <<>>
    /\ epubZip = <<>>
    /\ output = <<>>
    /\ NoCall

\* generateOutputZip from its call to the await of generateEPUB: the pages are
\* combined (and sorted in place), the registry is built, content.md,
\* content.html and the images are filed, and generateEPUB builds the EPUB its
\* promise resolves with.  An image whose data atob rejects makes the call throw
\* in the loop of the images, with the entries filed before it in the archive
GenerateOutputZip ==
    /\ pc = "input"
    /\ LET title == TitleOf(originalFileName)
           raw == combineMarkdown(ocrResult)
           pages == pagesAfterCombine(ocrResult)
           imgs == extractImages([ocrResult EXCEPT !.pages = pages])
       IN  /\ given' = ocrResult.pages
           /\ ocrResult' = [ocrResult EXCEPT !.pages = pages]
           /\ rawMarkdown' = raw
           /\ images' = imgs
           /\ zip' = flatEntries(raw, imgs, title)
           /\ IF DecodeThrows(imgs)
              THEN /\ pc' = "failed"
                   /\ UNCHANGED epubZip
              ELSE /\ pc' = "epub built"
                   /\ epubZip' = generateEPUB(raw, imgs, title)
    /\ UNCHANGED <<utilVars, mathJax, appVars, renderVars,
                   fnVars, originalFileName, output>>

\* the await of generateEPUB resumes: epubZip.generateAsync is called and awaited
EpubResolved ==
    /\ pc = "epub built"
    /\ pc' = "epub serializing"
    /\ UNCHANGED <<utilVars, mathJax, appVars, renderVars, docVars, fnVars,
                   originalFileName, images, zip, epubZip, output>>

\* epubZip.generateAsync resolves: the EPUB is filed as content.epub and the
\* serialization of the output archive starts
EpubSerialized ==
    /\ pc = "epub serializing"
    /\ zip' = file(zip, ContentEpubName, generateAsync(epubZip), NoCompression)
    /\ pc' = "epub stored"
    /\ UNCHANGED <<utilVars, mathJax, appVars, renderVars,
                   docVars, fnVars, originalFileName, images, epubZip, output>>

\* zip.generateAsync resolves: generateOutputZip returns the archive
ZipSerialized ==
    /\ pc = "epub stored"
    /\ output' = generateAsync(zip)
    /\ pc' = "done"
    /\ UNCHANGED <<utilVars, mathJax, appVars, renderVars,
                   docVars, fnVars, originalFileName, images, zip, epubZip>>

NextZip == GenerateOutputZip \/ EpubResolved \/ EpubSerialized \/ ZipSerialized

SpecZip == InitZip /\ [][NextZip]_vars

\* the images of a generated extractImages call: an id with data, the same id
\* with other data, a name in place of the id, an id without data, data without
\* an id or a name
ExtractSamples ==
    { [id |-> <<"i", ".", "p", "n", "g">>, name |-> <<>>, image_base64 |-> <<"Q", "Q", "=", "=">>],
      [id |-> <<"i", ".", "p", "n", "g">>, name |-> <<>>, image_base64 |-> <<"Q", "U", "I", "=">>],
      [id |-> <<>>, name |-> <<"n", ".", "g", "i", "f">>, image_base64 |-> <<"Q", "Q", "=", "=">>],
      [id |-> <<"k">>, name |-> <<>>, image_base64 |-> <<>>],
      [id |-> <<>>, name |-> <<>>, image_base64 |-> <<"Q", "Q", "=", "=">>] }

ExtractItems ==
    {[kind |-> "page", index |-> 0]}
    \cup {[kind |-> "image", image |-> t] : t \in ExtractSamples}

ExtractScripts ==
    {s \in Scripts(ExtractItems, MaxExtract) : s = <<>> \/ s[1].kind = "page"}

\* extractImages applied to a generated OcrResult
InitExtract ==
    /\ pc = "input"
    /\ \E s \in ExtractScripts : ocrResult = [pages |-> BuildPages(<<>>, s)]
    /\ given = <<>>
    /\ rawMarkdown = <<>>
    /\ NoCall
    /\ NoZip
    /\ NoUtil
    /\ mathJax = "undefined"
    /\ NoApp
    /\ NoRender

ExtractImages ==
    /\ pc = "input"
    /\ images' = extractImages(ocrResult)
    /\ pc' = "extracted"
    /\ UNCHANGED <<docVars, fnVars, utilVars, mathJax, appVars, renderVars,
                   originalFileName, zip, epubZip, output>>

SpecExtract == InitExtract /\ [][ExtractImages]_vars

\* the byte values of a generated fileToBase64 input: the smallest and the largest
\* byte, a letter, and a byte whose text needs "+"
ByteSamples == {0, 65, 251, 255}

\* fileToBase64 applied to a generated byte sequence, base64ToBytes to its result
InitBase64 ==
    /\ pc = "input"
    /\ bytes \in UNION {[1..n -> ByteSamples] : n \in 0..MaxBytes}
    /\ encoded = <<>>
    /\ decoded = [ok |-> TRUE, bytes |-> <<>>, message |-> ""]
    /\ unescaped = <<>>
    /\ escaped = <<>>
    /\ mathJax = "undefined"
    /\ NoApp
    /\ NoRender
    /\ NoDoc
    /\ NoCall
    /\ NoZip

FileToBase64 ==
    /\ pc = "input"
    /\ encoded' = fileToBase64(bytes)
    /\ pc' = "encoded"
    /\ UNCHANGED <<docVars, fnVars, zipVars, mathJax, appVars, renderVars,
                   bytes, decoded, unescaped, escaped>>

Base64ToBytes ==
    /\ pc = "encoded"
    /\ decoded' = base64ToBytes(encoded)
    /\ pc' = "decoded"
    /\ UNCHANGED <<docVars, fnVars, zipVars, mathJax, appVars, renderVars,
                   bytes, encoded, unescaped, escaped>>

NextBase64 == FileToBase64 \/ Base64ToBytes

SpecBase64 == InitBase64 /\ [][NextBase64]_vars

\* the characters of a generated escapeXML argument: the five that are escaped,
\* a letter and the end of an entity
EscapeChars == {"&", "<", ">", "\"", "'", "a", ";"}

\* escapeXML applied to a generated text
InitEscape ==
    /\ pc = "input"
    /\ unescaped \in UNION {[1..n -> EscapeChars] : n \in 0..MaxChars}
    /\ escaped = <<>>
    /\ bytes = <<>>
    /\ encoded = <<>>
    /\ decoded = [ok |-> TRUE, bytes |-> <<>>, message |-> ""]
    /\ mathJax = "undefined"
    /\ NoApp
    /\ NoRender
    /\ NoDoc
    /\ NoCall
    /\ NoZip

EscapeXML ==
    /\ pc = "input"
    /\ escaped' = escapeXML(unescaped)
    /\ pc' = "escaped"
    /\ UNCHANGED <<docVars, fnVars, zipVars, mathJax, appVars, renderVars,
                   bytes, encoded, decoded, unescaped>>

SpecEscape == InitEscape /\ [][EscapeXML]_vars

\* the pieces of a generated markdown with math: the delimiters, a digit, a line
\* end, a backslash command, a bracket, a price, inline math, an entity, an image
\* reference, and the text of a placeholder
MathParts ==
    { <<"$">>, <<"$", "$">>, <<"5">>, <<"\n">>, <<"\\", "b">>, <<"(">>,
      <<"$", "5", " ">>, <<"$", "5", "$">>, <<"&", "l", "t", ";">>,
      <<"!", "[", "]", "(", "i", ")">>,
      InlinePlaceholder(0) }

\* no line of the text begins or ends with a space
NoSpaceAtLineEnds(s) ==
    \A i \in 1..Len(s) :
        s[i] = " " => /\ i > 1 /\ s[i - 1] # "\n"
                      /\ i < Len(s) /\ s[i + 1] # "\n"

\* generateHTML and step 7 of generateEPUB applied as generateOutputZip applies
\* them, and markdownToHtml, on a generated markdown under each engine state
InitRender ==
    /\ pc = "input"
    /\ \E s \in Scripts(MathParts, MaxMath) :
          markdown = Flatten(s) /\ NoSpaceAtLineEnds(Flatten(s))
    /\ mathJax \in MathJaxStates
    /\ NoApp
    /\ NoRender
    /\ tables = <<>>
    /\ imagePrefix = DefaultImagePrefix
    /\ result = <<>>
    /\ again = <<>>
    /\ NoDoc
    /\ NoZip
    /\ NoUtil

\* generateHTML(processedMarkdown, title) returns
GenerateHTML ==
    /\ pc = "input"
    /\ LET processedMarkdown == processMarkdownImages(markdown, imagePrefix)
       IN  /\ result' = processedMarkdown
           /\ blocks' = extractLatexBlocks(processedMarkdown).blocks
           /\ html' = generateHTML(processedMarkdown, DefaultTitle).body
    /\ pc' = "html"
    /\ UNCHANGED <<docVars, zipVars, utilVars, mathJax, appVars,
                   markdown, tables, imagePrefix, again, xhtml, htmlContent>>

\* step 7 of generateEPUB(rawMarkdown, images, title) has rendered the content
GenerateEPUBContent ==
    /\ pc = "html"
    /\ xhtml' = contentDocument(markdown, DefaultTitle).body
    /\ pc' = "xhtml"
    /\ UNCHANGED <<docVars, zipVars, utilVars, mathJax, appVars, fnVars,
                   blocks, html, htmlContent>>

\* markdownToHtml(processedMarkdown) returns
MarkdownToHtml ==
    /\ pc = "xhtml"
    /\ htmlContent' = markdownToHtml(result)
    /\ pc' = "rendered"
    /\ UNCHANGED <<docVars, zipVars, utilVars, mathJax, appVars, fnVars,
                   blocks, html, xhtml>>

NextRender == GenerateHTML \/ GenerateEPUBContent \/ MarkdownToHtml

SpecRender == InitRender /\ [][NextRender]_vars

\* a session of App: the user's actions and the completions of the awaits of
\* processDocument, in any order
pipelineVars == <<pc, docVars, fnVars, zipVars, utilVars, mathJax, renderVars>>

InitApp ==
    /\ pc = "input"
    /\ NoDoc
    /\ NoCall
    /\ NoZip
    /\ NoUtil
    /\ NoRender
    /\ mathJax = "undefined"
    /\ \E k \in ApiKeys : state = createStore(k)
    /\ runs = <<>>

\* onInput of the API key field
ApiKeyInput ==
    /\ \E v \in ApiKeys : state' = setState(state, [apiKey |-> v])
    /\ UNCHANGED <<runs, pipelineVars>>

\* onChange of the file input.  Its disabled attribute is given the value of
\* props.disabled, not a function of it, so that it is set once, when FileUpload
\* is rendered and no conversion is loading: the input stays enabled
FileChange ==
    /\ \E f \in Files : state' = onFile(state, f)
    /\ UNCHANGED <<runs, pipelineVars>>

\* handleDrop: a file is dropped on the upload area
HandleDrop ==
    /\ \E f \in Files : state' = onFile(state, f)
    /\ UNCHANGED <<runs, pipelineVars>>

\* onDismiss of the error display, which is shown while state.error is set
DismissError ==
    /\ state.error # ""
    /\ state' = setState(state, [error |-> ""])
    /\ UNCHANGED <<runs, pipelineVars>>

\* click on Reset, which is shown when the status is complete or error
ResetState ==
    /\ state.status \in {"complete", "error"}
    /\ state' = resetState(state)
    /\ UNCHANGED <<runs, pipelineVars>>

\* a call of processDocument that has returned, from its catch block or after it
\* stored a bundle: its locals are gone
Failed ==
    [pc |-> "failed", file |-> NoFile, ocrResult |-> [pages |-> <<>>],
     originalFileName |-> <<>>]
Completed ==
    [pc |-> "complete", file |-> NoFile, ocrResult |-> [pages |-> <<>>],
     originalFileName |-> <<>>]

\* click on Process, which is disabled unless canProcess(): processDocument runs
\* up to the await of performOCR(state.file, ...).  A call is held as its
\* position, the file given to performOCR while that is pending, and the
\* arguments of generateOutputZip while that is pending
ProcessDocument ==
    /\ canProcess(state)
    /\ Len(runs) < MaxRuns
    /\ state' = startProcessing(state)
    /\ runs' = Append(runs, [pc |-> "ocr", file |-> state.file,
                             ocrResult |-> [pages |-> <<>>],
                             originalFileName |-> <<>>])
    /\ UNCHANGED pipelineVars

\* performOCR settles for call i of processDocument: on an error the catch block
\* runs, otherwise generateOutputZip(ocrResult, state.file.name, options) is
\* called and awaited; the TypeError of state.file.name, when state.file is null,
\* is thrown before the call, so that the catch block runs at once
OcrSettles(i) ==
    /\ i <= Len(runs)
    /\ runs[i].pc = "ocr"
    /\ \E o \in performOCR(runs[i].file) :
          IF o.threw
          THEN /\ state' = catchError(state, o.message)
               /\ runs' = [runs EXCEPT ![i] = Failed]
          ELSE IF state.file = NoFile
          THEN /\ state' = catchError(startConverting(state), NullFileMessage)
               /\ runs' = [runs EXCEPT ![i] = Failed]
          ELSE /\ state' = startConverting(state)
               /\ runs' = [runs EXCEPT ![i] =
                               [pc |-> "zip", file |-> NoFile,
                                ocrResult |-> o.value,
                                originalFileName |-> state.file.name]]
    /\ UNCHANGED pipelineVars

\* generateOutputZip settles for call i of processDocument: when its promise is
\* rejected the catch block runs; otherwise the bundle is stored under the name
\* of state.file, or the catch block runs when state.file is null
ZipSettles(i) ==
    /\ i <= Len(runs)
    /\ runs[i].pc = "zip"
    /\ LET zipped == outputZips[runs[i].ocrResult, runs[i].originalFileName]
       IN  IF zipped.threw
           THEN /\ state' = catchError(state, zipped.message)
                /\ runs' = [runs EXCEPT ![i] = Failed]
           ELSE IF state.file = NoFile
           THEN /\ state' = catchError(state, NullFileMessage)
                /\ runs' = [runs EXCEPT ![i] = Failed]
           ELSE /\ state' = finishProcessing(state, zipped.value)
                /\ runs' = [runs EXCEPT ![i] = Completed]
    /\ UNCHANGED pipelineVars

NextApp ==
    \/ ApiKeyInput
    \/ FileChange
    \/ HandleDrop
    \/ DismissError
    \/ ResetState
    \/ ProcessDocument
    \/ \E i \in 1..MaxRuns : OcrSettles(i)
    \/ \E i \in 1..MaxRuns : ZipSettles(i)

SpecApp == InitApp /\ [][NextApp]_vars

\* an awaited call settles
Settles == \E i \in 1..MaxRuns : OcrSettles(i) \/ ZipSettles(i)

\* the awaited calls settle: performOCR and generateOutputZip each return or
\* throw, so that a call of processDocument is never left waiting forever
SpecAppFair == SpecApp /\ WF_vars(Settles)

-----------------------------------------------------------------------------
(* Claims about the Page Combiner (SpecCombine, SpecInline).               *)

\* the text combineMarkdown emits for a page
PageText(page) == inlineTableContent(page.markdown, page.tables)

\* s has a line that is exactly "---"
HasRuleLine(s) ==
    \E i \in 1..Len(s) :
        /\ StartsWithAt(s, <<"-", "-", "-">>, i)
        /\ (i = 1 \/ s[i - 1] = "\n")
        /\ (i + 3 > Len(s) \/ s[i + 3] = "\n")

SeparatorsExpected == IF Len(given) <= 1 THEN 0 ELSE Len(given) - 1

\* C3 as stated: for every OcrResult with N pages the output of combineMarkdown
\* holds exactly N-1 occurrences of the page separator, and none when N <= 1
C3_SeparatorCount ==
    pc = "combined" => Occurrences(rawMarkdown, PageSeparator) = SeparatorsExpected

\* C3 amended: when no page's inlined text has a line that is exactly "---", the
\* output of combineMarkdown holds exactly N-1 occurrences of the page separator,
\* and none when N <= 1
C3_SeparatorCountNoRule ==
    (pc = "combined" /\ \A i \in 1..Len(given) : ~HasRuleLine(PageText(given[i])))
        => Occurrences(rawMarkdown, PageSeparator) = SeparatorsExpected

\* C3 witness: two or more pages were combined, one of them with dashes in its
\* text, none with a rule line
C3_Witness ==
    /\ pc = "combined"
    /\ Len(given) >= 2
    /\ \A i \in 1..Len(given) : ~HasRuleLine(PageText(given[i]))
    /\ \E i \in 1..Len(given) : includes(PageText(given[i]), <<"-", "-", "-">>)

\* C4: combineMarkdown emits the pages in ascending order of index whatever their
\* arrival order, pages of equal index keeping their arrival order
C4_SortedStable ==
    pc = "combined" =>
        /\ Len(ocrResult.pages) = Len(given)
        /\ \A i \in 1..Len(ocrResult.pages) - 1 :
              ocrResult.pages[i].index <= ocrResult.pages[i + 1].index
        /\ \A k \in 0..MaxIndex + 1 :
              SelectSeq(ocrResult.pages, LAMBDA p : p.index = k)
                  = SelectSeq(given, LAMBDA p : p.index = k)
        /\ rawMarkdown =
              join([i \in 1..Len(ocrResult.pages) |-> PageText(ocrResult.pages[i])],
                   PageSeparator)

\* C4 witness: a page arrives after a page of larger index, and two different
\* pages share an index
C4_Witness ==
    /\ pc = "combined"
    /\ \E i, j \in 1..Len(given) : i < j /\ given[i].index > given[j].index
    /\ \E i, j \in 1..Len(given) :
          i < j /\ given[i].index = given[j].index /\ given[i] # given[j]

\* C7: a table is substituted only into the markdown of its own page: the output is
\* the join of the pages' texts, each inlined with its own tables, and a page
\* without tables is emitted verbatim even when it holds another page's placeholder
C7_TablesStayOnTheirPage ==
    pc = "combined" =>
        rawMarkdown =
            join([i \in 1..Len(ocrResult.pages) |->
                    IF ocrResult.pages[i].tables = <<>>
                    THEN ocrResult.pages[i].markdown
                    ELSE inlineTableContent(ocrResult.pages[i].markdown,
                                            ocrResult.pages[i].tables)],
                 PageSeparator)

\* C7 witness: page P has a table, page Q has none and holds the placeholder of
\* P's table, which is still in the output
C7_Witness ==
    /\ pc = "combined"
    /\ \E p, q \in 1..Len(given) :
          /\ p # q
          /\ given[q].tables = <<>>
          /\ \E k \in 1..Len(given[p].tables) :
                /\ Inlinable(given[p].tables[k])
                /\ includes(given[q].markdown, placeholder(given[p].tables[k].id))
                /\ includes(rawMarkdown, placeholder(given[p].tables[k].id))

\* the tables of the call that inlineTableContent acts on
InlinableTables == {i \in 1..Len(tables) : Inlinable(tables[i])}

\* no table content holds a table placeholder or a replacement pattern
PlainContents ==
    \A i \in InlinableTables :
        /\ ~includes(tables[i].content, <<"[">>)
        /\ ~includes(tables[i].content, <<"$">>)

\* C5 as stated, for table contents that are plain text: after inlineTableContent
\* the output holds no placeholder `[id](id)` of a table with non-empty id and
\* content, however many times it occurred in the input
C5_NoPlaceholderLeft ==
    (pc = "inlined" /\ PlainContents) =>
        \A i \in InlinableTables : ~includes(result, placeholder(tables[i].id))

\* C6 as stated: applying inlineTableContent with the same tables to its own
\* output returns that output unchanged
C6_Idempotent == pc = "reinlined" => again = result

\* C6 amended: when the output holds no placeholder of a table with non-empty id
\* and content, applying inlineTableContent with the same tables to it returns it
\* unchanged
C6_IdempotentNoPlaceholder ==
    (pc = "reinlined"
        /\ \A i \in InlinableTables : ~includes(result, placeholder(tables[i].id)))
        => again = result

\* C6 witness: a table was inlined, no placeholder of an inlinable table is left,
\* and the second application has run
C6_Witness ==
    /\ pc = "reinlined"
    /\ result # markdown
    /\ InlinableTables # {}
    /\ \A i \in InlinableTables : ~includes(result, placeholder(tables[i].id))

-----------------------------------------------------------------------------
(* Claims about the Reference Rewriter (SpecRewrite).                      *)

\* the image references of s in the order the rewriter finds them
RECURSIVE ImageReferences(_, _)
ImageReferences(s, i) ==
    IF i > Len(s) THEN <<>>
    ELSE LET m == ImageAt(s, i)
         IN  IF m.ok THEN <<m>> \o ImageReferences(s, m.end + 1)
             ELSE ImageReferences(s, i + 1)

SrcOf(s, m) == SubSeq(s, m.close + 2, m.end - 1)

\* s with the prefix put in front of the src of the references chosen, and
\* nothing else changed
RECURSIVE WithPrefix(_, _, _, _, _, _)
WithPrefix(s, refs, k, from, chosen, prefix) ==
    IF k > Len(refs) THEN SubSeq(s, from, Len(s))
    ELSE SubSeq(s, from, refs[k].close + 1)
            \o (IF k \in chosen THEN prefix ELSE <<>>)
            \o WithPrefix(s, refs, k + 1, refs[k].close + 2, chosen, prefix)

External(src) == startsWith(src, HttpScheme) \/ startsWith(src, DataScheme)

Rewritten == pc \in {"rewritten", "rewritten twice"}

\* C8 as stated: for any markdown m and any prefix p,
\* processMarkdownImages(processMarkdownImages(m, p), p) = processMarkdownImages(m, p)
C8_Idempotent == pc = "rewritten twice" => again = result

\* C8 amended: the same, for any markdown m and any prefix p that holds no ")"
C8_IdempotentPrefix ==
    (pc = "rewritten twice" /\ ~includes(imagePrefix, <<")">>)) => again = result

\* C8 witness: a non-empty prefix without ")" was put in front of a src, and the
\* function has been applied to its output
C8_Witness ==
    /\ pc = "rewritten twice"
    /\ imagePrefix # <<>>
    /\ ~includes(imagePrefix, <<")">>)
    /\ result # markdown

\* C9: an image reference whose src starts with http or data: is never prefixed:
\* the output is the input with the prefix put in front of the src of references
\* that are not of that kind, so every such reference is in the output unchanged
C9_ExternalUntouched ==
    Rewritten =>
        LET refs == ImageReferences(markdown, 1)
        IN  \E chosen \in SUBSET {k \in 1..Len(refs) : ~External(SrcOf(markdown, refs[k]))} :
                result = WithPrefix(markdown, refs, 1, 1, chosen, imagePrefix)

\* C9 witness: the markdown holds an http reference, a data: reference and a
\* relative reference, and the relative one was prefixed
C9_Witness ==
    /\ pc = "rewritten"
    /\ result # markdown
    /\ LET refs == ImageReferences(markdown, 1)
       IN  /\ \E k \in 1..Len(refs) : startsWith(SrcOf(markdown, refs[k]), HttpScheme)
           /\ \E k \in 1..Len(refs) : startsWith(SrcOf(markdown, refs[k]), DataScheme)

\* C10: processMarkdownImages changes only the src of image references: the output
\* is the input with the prefix put in front of the src of some image references;
\* links and all other text are as in the input
C10_OnlySrcChanges ==
    Rewritten =>
        LET refs == ImageReferences(markdown, 1)
        IN  \E chosen \in SUBSET (1..Len(refs)) :
                result = WithPrefix(markdown, refs, 1, 1, chosen, imagePrefix)

\* C10 witness: the markdown holds a link outside every image reference and an
\* image reference with alt text that was prefixed
C10_Witness ==
    /\ pc = "rewritten"
    /\ result # markdown
    /\ LET refs == ImageReferences(markdown, 1)
           link == <<"[", "a", "]", "(", "x", ")">>
       IN  /\ \E k \in 1..Len(refs) : refs[k].close > refs[k].start + 2
           /\ \E i \in 1..Len(markdown) :
                 /\ StartsWithAt(markdown, link, i)
                 /\ (i = 1 \/ markdown[i - 1] # "!")
                 /\ \A k \in 1..Len(refs) : refs[k].end < i \/ refs[k].start > i

-----------------------------------------------------------------------------
(* Claims about the EPUB Packager (SpecZip).                               *)

EpubBuilt == pc \in {"epub built", "epub serializing", "epub stored", "done"}

\* the first entry of a serialized archive is the only one named mimetype, is
\* stored and holds application/epub+zip
MimetypeFirst(archive) ==
    /\ Len(archive) >= 1
    /\ archive[1].name = MimetypeName
    /\ archive[1].compression = "STORE"
    /\ archive[1].data = MimetypeContent
    /\ \A i \in 2..Len(archive) : archive[i].name # MimetypeName

\* C1: in the EPUB archive generateEPUB builds, and in the content.epub entry of
\* the archive generateOutputZip returns, the entry named mimetype is the first
\* entry, is stored without compression and holds exactly application/epub+zip
C1_MimetypeFirst ==
    /\ EpubBuilt => MimetypeFirst(generateAsync(epubZip))
    /\ pc = "done" =>
          \E i \in 1..Len(output) :
              /\ output[i].name = ContentEpubName
              /\ MimetypeFirst(output[i].data)

\* C1 witness: generateOutputZip has returned an archive whose EPUB holds images
C1_Witness ==
    /\ pc = "done"
    /\ Len(images) >= 1
    /\ \E i \in 1..Len(output) :
          output[i].name = ContentEpubName /\ Len(output[i].data) > 5

\* the names of the entries of an archive that are files, in the order of the
\* archive
FileEntryNames(archive) ==
    LET files == SelectSeq(archive, LAMBDA e : ~e.dir)
    IN  [i \in 1..Len(files) |-> files[i].name]

\* every directory entry of the archive is a folder of a file entry, and stands
\* before all the entries of the folder
FoldersBeforeEntries(archive) ==
    \A i \in 1..Len(archive) :
        archive[i].dir =>
            /\ archive[i].name[Len(archive[i].name)] = "/"
            /\ archive[i].data = <<>>
            /\ \E j \in (i + 1)..Len(archive) :
                  ~archive[j].dir /\ startsWith(archive[j].name, archive[i].name)
            /\ \A j \in 1..(i - 1) : ~startsWith(archive[j].name, archive[i].name)

\* C2, as amended: the file entries of the archive generateEPUB builds are
\* mimetype, META-INF/container.xml, OEBPS/content.opf, OEBPS/nav.xhtml,
\* OEBPS/content.xhtml and then one OEBPS/images/<id> per registry image, in
\* registry order; every other entry is the directory entry of a folder of these,
\* placed before the entries of the folder
C2_FileEntryOrder ==
    EpubBuilt =>
        /\ FileEntryNames(epubZip)
              = <<MimetypeName, ContainerName, PackageName, NavName, ContentName>>
                  \o [i \in 1..Len(images) |-> EpubImageFolder \o images[i].id]
        /\ FoldersBeforeEntries(epubZip)

\* C2: the entries of the archive generateEPUB builds are mimetype,
\* META-INF/container.xml, OEBPS/content.opf, OEBPS/nav.xhtml, OEBPS/content.xhtml
\* and then one OEBPS/images/<id> per registry image, in registry order, with no
\* other entry
C2_EntryOrder ==
    EpubBuilt =>
        [i \in 1..Len(epubZip) |-> epubZip[i].name]
            = <<MimetypeName, ContainerName, PackageName, NavName, ContentName>>
                \o [i \in 1..Len(images) |-> EpubImageFolder \o images[i].id]

\* C2 witness: an EPUB was built from a registry of two or more images, with the
\* directory entry of its images folder
C2_Witness ==
    /\ pc = "epub built"
    /\ Len(images) >= 2
    /\ \E i \in 1..Len(epubZip) : epubZip[i].dir /\ epubZip[i].name = EpubImageFolder

-----------------------------------------------------------------------------
(* Claims about the file utilities (SpecBase64, SpecEscape).               *)

\* C11: base64ToBytes applied to the text fileToBase64 gave for a byte sequence
\* returns the same bytes, in the same order and of the same length
C11_RoundTrip ==
    pc = "decoded" =>
        /\ decoded.ok
        /\ Len(decoded.bytes) = Len(bytes)
        /\ decoded.bytes = bytes

\* C11 witness: a round trip of bytes whose text needs padding and "+" or "/"
C11_Witness ==
    /\ pc = "decoded"
    /\ Len(bytes) % 3 # 0
    /\ includes(encoded, <<"=">>)
    /\ includes(encoded, <<"+">>) \/ includes(encoded, <<"/">>)

\* the named entity of a character escapeXML escapes, the character otherwise
EntityOf(c) ==
    CASE c = "&" -> <<"&", "a", "m", "p", ";">>
      [] c = "<" -> <<"&", "l", "t", ";">>
      [] c = ">" -> <<"&", "g", "t", ";">>
      [] c = "\"" -> <<"&", "q", "u", "o", "t", ";">>
      [] c = "'" -> <<"&", "a", "p", "o", "s", ";">>
      [] OTHER -> <<c>>

\* C12: escapeXML writes the named entity of each of & < > " ' and every other
\* character as it is, each character of the input once, and the empty string
\* for an empty, null or absent input
C12_EscapeEach ==
    pc = "escaped" =>
        escaped = Flatten([i \in 1..Len(unescaped) |-> EntityOf(unescaped[i])])

\* C12 witness: a text with "<", with "&" and with a character that is not escaped
C12_Witness ==
    /\ pc = "escaped"
    /\ includes(unescaped, <<"&">>)
    /\ includes(unescaped, <<"<">>)
    /\ \E i \in 1..Len(unescaped) : EntityOf(unescaped[i]) = <<unescaped[i]>>

-----------------------------------------------------------------------------
(* Claims about the Resource Extractor (SpecExtract).  The id of an image  *)
(* is the identifier extractImages reads from it: img.id || img.name.      *)

\* the image entries of the document, in page order
AllImages == Flatten([i \in 1..Len(ocrResult.pages) |-> ocrResult.pages[i].images])

KeyOf(img) == IF img.id # <<>> THEN img.id ELSE img.name

HasIdAndData(img) == KeyOf(img) # <<>> /\ img.image_base64 # <<>>

\* C13: the registry has an entry for an image only when the image has both an id
\* and data; an image missing either leaves no entry, not even a partial one, a
\* page without images contributes nothing, and extractImages returns
C13_SkipIncomplete ==
    pc = "extracted" =>
        /\ {images[i].id : i \in 1..Len(images)}
              = {KeyOf(AllImages[k]) :
                    k \in {j \in 1..Len(AllImages) : HasIdAndData(AllImages[j])}}
        /\ \A i \in 1..Len(images) : images[i].id # <<>> /\ images[i].data # <<>>
        /\ images = extractImages(
                        [pages |-> SelectSeq(ocrResult.pages,
                                             LAMBDA page : page.images # <<>>)])

\* C13 witness: a document with a page without images, an image without data, an
\* image without id, and an image that is registered
C13_Witness ==
    /\ pc = "extracted"
    /\ \E i \in 1..Len(ocrResult.pages) : ocrResult.pages[i].images = <<>>
    /\ \E k \in 1..Len(AllImages) : AllImages[k].image_base64 = <<>>
    /\ \E k \in 1..Len(AllImages) : KeyOf(AllImages[k]) = <<>>
    /\ images # <<>>

\* C14: the registry has one entry per distinct image id of the document, and the
\* entry of an id holds the data of the last image of that id that has data, so
\* the one of the later page when the id occurs on several pages
C14_LaterPageWins ==
    pc = "extracted" =>
        /\ \A i, j \in 1..Len(images) : images[i].id = images[j].id => i = j
        /\ \A k \in 1..Len(AllImages) :
              HasIdAndData(AllImages[k]) =>
                  \E i \in 1..Len(images) :
                      /\ images[i].id = KeyOf(AllImages[k])
                      /\ LET last == CHOOSE n \in k..Len(AllImages) :
                                        /\ HasIdAndData(AllImages[n])
                                        /\ KeyOf(AllImages[n]) = KeyOf(AllImages[k])
                                        /\ \A n2 \in (n + 1)..Len(AllImages) :
                                              ~(HasIdAndData(AllImages[n2])
                                                /\ KeyOf(AllImages[n2]) = KeyOf(AllImages[k]))
                         IN  images[i].data = AllImages[last].image_base64

\* C14 witness: the same id is on two pages with different data, and another id
\* is registered too
C14_Witness ==
    /\ pc = "extracted"
    /\ Len(images) >= 2
    /\ \E p, q \in 1..Len(ocrResult.pages) :
          /\ p < q
          /\ \E a \in 1..Len(ocrResult.pages[p].images),
                b \in 1..Len(ocrResult.pages[q].images) :
                /\ HasIdAndData(ocrResult.pages[p].images[a])
                /\ HasIdAndData(ocrResult.pages[q].images[b])
                /\ KeyOf(ocrResult.pages[p].images[a]) = KeyOf(ocrResult.pages[q].images[b])
                /\ ocrResult.pages[p].images[a].image_base64
                      # ocrResult.pages[q].images[b].image_base64

-----------------------------------------------------------------------------
(* Claims about the package manifest (SpecZip).                            *)

\* the manifest of the package document of the EPUB, without the items of the
\* two static documents
ImageItems ==
    LET package == epubZip[CHOOSE i \in 1..Len(epubZip) : epubZip[i].name = PackageName]
    IN  SubSeq(package.data.manifest, 3, Len(package.data.manifest))

\* C20: the manifest generateEPUB writes has exactly one item per registry image,
\* with href images/<id> and media type image/png, image/gif or image/webp for
\* the format png, gif or webp, and image/jpeg for every other format
C20_ManifestItems ==
    EpubBuilt =>
        /\ Cardinality({i \in 1..Len(epubZip) : epubZip[i].name = PackageName}) = 1
        /\ Len(ImageItems) = Len(images)
        /\ \A i \in 1..Len(images) :
              /\ ImageItems[i].href = <<"i", "m", "a", "g", "e", "s", "/">> \o images[i].id
              /\ ImageItems[i].mediaType =
                    CASE images[i].format = <<"p", "n", "g">> ->
                            <<"i", "m", "a", "g", "e", "/", "p", "n", "g">>
                      [] images[i].format = <<"g", "i", "f">> ->
                            <<"i", "m", "a", "g", "e", "/", "g", "i", "f">>
                      [] images[i].format = <<"w", "e", "b", "p">> ->
                            <<"i", "m", "a", "g", "e", "/", "w", "e", "b", "p">>
                      [] OTHER -> <<"i", "m", "a", "g", "e", "/", "j", "p", "e", "g">>

\* C20 witness: an EPUB with two registry images, a webp and one whose format is
\* none of png, gif, webp
C20_Witness ==
    /\ EpubBuilt
    /\ Len(images) = 2
    /\ \E i \in 1..Len(images) : images[i].format = WebpName
    /\ \E i \in 1..Len(images) : images[i].format \notin {PngName, GifName, WebpName}

-----------------------------------------------------------------------------
(* Claims about the Math Protector and the HTML Renderer (SpecRender).     *)

HtmlRendered == pc \in {"html", "xhtml", "rendered"}

\* the blocks on whose expression the engine throws
FailedBlocks ==
    {i \in 1..Len(blocks) : tex2svgThrows(decodeHtmlEntities(blocks[i].latex))}

\* C15: when the math engine fails on an expression, the HTML of generateHTML
\* holds the dollar-delimited source in its place, $expr$ for inline math and
\* $$expr$$ for display math
C15_FallbackSource ==
    HtmlRendered =>
        \A i \in FailedBlocks :
            includes(html, DollarSource(blocks[i].latex, blocks[i].display))

\* C16: when no math engine is available, the HTML of generateHTML holds the
\* dollar-delimited source of every extracted block and no placeholder token
C16_NoEngineSource ==
    (HtmlRendered /\ mathJax = "undefined") =>
        \A i \in 1..Len(blocks) :
            /\ ~includes(html, blocks[i].placeholder)
            /\ includes(html, DollarSource(blocks[i].latex, blocks[i].display))

\* C17: the placeholder tokens of one document are pairwise distinct, none is
\* part of another, and none occurs in the text of the document generateHTML
\* was given
C17_TokensUnique ==
    HtmlRendered =>
        /\ \A i, j \in 1..Len(blocks) :
              i # j => ~includes(blocks[i].placeholder, blocks[j].placeholder)
        /\ \A i \in 1..Len(blocks) : ~includes(result, blocks[i].placeholder)

\* C18: for the same rewritten markdown and the same engine, the body generateEPUB
\* renders for content.xhtml is the body generateHTML renders for content.html
C18_SameBody == pc \in {"xhtml", "rendered"} => xhtml = html

\* C18 witness: both bodies are rendered from a markdown with an image reference
\* that was rewritten and with math that the engine rendered
C18_Witness ==
    /\ pc = "xhtml"
    /\ result # markdown
    /\ blocks # <<>>
    /\ mathJax = "renders"
    /\ includes(html, MathInlineOpen)

\* the matches of the inline pattern in s from position i on, as the replace call
\* finds them: pairs of the positions of the opening and the closing "$"
RECURSIVE InlineMatches(_, _, _)
InlineMatches(s, i, openers) ==
    IF i > Len(s) THEN {}
    ELSE LET close == InlineClose(s, i, openers)
         IN  IF close # 0
             THEN {<<i, close>>} \cup InlineMatches(s, close + 1, openers)
             ELSE InlineMatches(s, i + 1, openers)

\* the opening "$" is the first character of a line or follows whitespace
AfterWhitespace(s, i) == i = 1 \/ IsSpace(s[i - 1])

\* the text between the delimiters is a price and the text that follows it: it
\* starts with a digit and ends with whitespace, before the "$" of a next price
PriceBetween(s, m) ==
    /\ s[m[1] + 1] \in {"0", "1", "2", "3", "4", "5", "6", "7", "8", "9"}
    /\ IsSpace(s[m[2] - 1])

\* C19: in both variants of the pipeline inline math is opened only by a "$" at the
\* start of a line or after whitespace, and a price such as $5 is not made math
C19_InlineAnchored ==
    pc = "rendered" =>
        LET protected == extractDisplay(result, 1, <<>>, <<>>).markdown
            direct == svgDisplay(result, 1)
        IN  /\ \A m \in InlineMatches(protected, 1, {}) :
                  AfterWhitespace(protected, m[1]) /\ ~PriceBetween(protected, m)
            /\ \A m \in InlineMatches(direct, 1, {"(", "[", "-", ":"}) :
                  AfterWhitespace(direct, m[1]) /\ ~PriceBetween(direct, m)

-----------------------------------------------------------------------------
(* Claims about the output archive (SpecZip).                              *)

\* the entry names of an archive, and the names a folder holds for the registry
NamesOf(archive) == {archive[i].name : i \in 1..Len(archive)}
RegistryNames(folder) == {folder \o images[i].id : i \in 1..Len(images)}

\* the entry names are pairwise different
DistinctNames(archive) ==
    \A i, j \in 1..Len(archive) : archive[i].name = archive[j].name => i = j

\* the names of the entries of an archive that are files
FileNamesOf(archive) == {archive[i].name : i \in {k \in 1..Len(archive) : ~archive[k].dir}}

\* C21, as amended: the file entries of the archive generateOutputZip returns are
\* exactly content.md, content.html, content.epub and one images/<id> entry per
\* registry image, the file entries of the EPUB inside it under OEBPS/images/ are
\* the same images with the same data, and every other entry of the two archives
\* is the directory entry of a folder of these
C21_BundleFileEntries ==
    pc = "done" =>
        /\ DistinctNames(output)
        /\ FoldersBeforeEntries(output)
        /\ FileNamesOf(output) =
              {ContentMdName, ContentHtmlName, ContentEpubName}
              \cup RegistryNames(DefaultImagePrefix)
        /\ \A i \in 1..Len(output) :
              output[i].name = ContentEpubName =>
                  /\ DistinctNames(output[i].data)
                  /\ FoldersBeforeEntries(output[i].data)
                  /\ {n \in FileNamesOf(output[i].data) : startsWith(n, EpubImageFolder)}
                       = RegistryNames(EpubImageFolder)
                  /\ \A k \in 1..Len(images) :
                        \E a \in 1..Len(output), b \in 1..Len(output[i].data) :
                            /\ output[a].name = DefaultImagePrefix \o images[k].id
                            /\ output[i].data[b].name = EpubImageFolder \o images[k].id
                            /\ output[a].data = output[i].data[b].data

\* C21: the archive generateOutputZip returns holds exactly content.md,
\* content.html, content.epub and one images/<id> entry per registry image, and
\* the EPUB inside it holds the same images under OEBPS/images/
C21_BundleEntries ==
    pc = "done" =>
        /\ DistinctNames(output)
        /\ NamesOf(output) =
              { <<"c", "o", "n", "t", "e", "n", "t", ".", "m", "d">>,
                <<"c", "o", "n", "t", "e", "n", "t", ".", "h", "t", "m", "l">>,
                <<"c", "o", "n", "t", "e", "n", "t", ".", "e", "p", "u", "b">> }
              \cup RegistryNames(<<"i", "m", "a", "g", "e", "s", "/">>)
        /\ \A i \in 1..Len(output) :
              output[i].name = <<"c", "o", "n", "t", "e", "n", "t", ".", "e", "p", "u", "b">> =>
                  /\ DistinctNames(output[i].data)
                  /\ {n \in NamesOf(output[i].data) :
                         startsWith(n, <<"O", "E", "B", "P", "S", "/", "i", "m", "a", "g", "e", "s", "/">>)}
                       = RegistryNames(<<"O", "E", "B", "P", "S", "/", "i", "m", "a", "g", "e", "s", "/">>)
                  /\ \A k \in 1..Len(images) :
                        \E a \in 1..Len(output), b \in 1..Len(output[i].data) :
                            /\ output[a].name = <<"i", "m", "a", "g", "e", "s", "/">> \o images[k].id
                            /\ output[i].data[b].name =
                                  <<"O", "E", "B", "P", "S", "/", "i", "m", "a", "g", "e", "s", "/">>
                                      \o images[k].id
                            /\ output[a].data = output[i].data[b].data

\* C21 witness: an archive was returned for a document whose registry holds two
\* images, with the directory entry of its images folder
C21_Witness ==
    /\ pc = "done"
    /\ Len(images) = 2
    /\ \E i \in 1..Len(output) : output[i].dir /\ output[i].name = DefaultImagePrefix

-----------------------------------------------------------------------------
(* Claims about the cross-references of the EPUB (SpecZip).                *)

\* the data of the entry of the EPUB with the name given
EpubEntry(name) ==
    LET i == CHOOSE i \in 1..Len(epubZip) : epubZip[i].name = name
    IN  epubZip[i].data

\* a reference of a document in the OEBPS folder, as an entry name
Oebps(href) == <<"O", "E", "B", "P", "S", "/">> \o href

\* C23: in the EPUB generateEPUB builds the rootfile of the container names the
\* package document entry, every manifest href names an entry under OEBPS/, the
\* spine idref and the nav link name the content document, and every
\* OEBPS/images/<id> entry has a manifest item
C23_ReferencesResolve ==
    EpubBuilt =>
        LET names == NamesOf(epubZip)
            package == EpubEntry(<<"O", "E", "B", "P", "S", "/", "c", "o", "n", "t", "e", "n", "t", ".", "o", "p", "f">>)
            content == <<"O", "E", "B", "P", "S", "/", "c", "o", "n", "t", "e", "n", "t", ".", "x", "h", "t", "m", "l">>
        IN  /\ {<<"M", "E", "T", "A", "-", "I", "N", "F", "/", "c", "o", "n", "t", "a", "i", "n", "e", "r", ".", "x", "m", "l">>,
                <<"O", "E", "B", "P", "S", "/", "c", "o", "n", "t", "e", "n", "t", ".", "o", "p", "f">>,
                <<"O", "E", "B", "P", "S", "/", "n", "a", "v", ".", "x", "h", "t", "m", "l">>,
                content} \subseteq names
            /\ EpubEntry(<<"M", "E", "T", "A", "-", "I", "N", "F", "/", "c", "o", "n", "t", "a", "i", "n", "e", "r", ".", "x", "m", "l">>).rootfile
                  = <<"O", "E", "B", "P", "S", "/", "c", "o", "n", "t", "e", "n", "t", ".", "o", "p", "f">>
            /\ \A k \in 1..Len(package.manifest) :
                  Oebps(package.manifest[k].href) \in names
            /\ \A s \in 1..Len(package.spine) :
                  \E k \in 1..Len(package.manifest) :
                      /\ package.manifest[k].id = package.spine[s]
                      /\ Oebps(package.manifest[k].href) = content
            /\ Len(package.spine) = 1
            /\ Oebps(EpubEntry(<<"O", "E", "B", "P", "S", "/", "n", "a", "v", ".", "x", "h", "t", "m", "l">>).href)
                  = content
            /\ \A n \in FileNamesOf(epubZip) :
                  startsWith(n, <<"O", "E", "B", "P", "S", "/", "i", "m", "a", "g", "e", "s", "/">>) =>
                      \E k \in 1..Len(package.manifest) :
                          Oebps(package.manifest[k].href) = n

\* C23 witness: an EPUB with image entries was built and is being stored
C23_Witness == pc = "epub stored" /\ Len(images) >= 1

\* C26: the item ids of the manifest generateEPUB writes are pairwise distinct
C26_DistinctIds ==
    EpubBuilt =>
        LET manifest == EpubEntry(<<"O", "E", "B", "P", "S", "/", "c", "o", "n", "t", "e", "n", "t", ".", "o", "p", "f">>).manifest
        IN  \A i, j \in 1..Len(manifest) : manifest[i].id = manifest[j].id => i = j

-----------------------------------------------------------------------------
(* Claims about the caller's OcrResult (SpecCombine).                      *)

\* C25: combineMarkdown leaves the caller's OcrResult unchanged: after the call
\* the pages sequence has the same pages in the same order as before the call
C25_CallerUnchanged == pc = "combined" => ocrResult.pages = given

-----------------------------------------------------------------------------
(* Claims about the inserted table content (SpecInline).                   *)

\* C24: inlineTableContent inserts the content verbatim: when one table of the
\* call has an id and a content and its placeholder occurs in the markdown, the
\* output is the markdown with the first occurrence of the placeholder replaced,
\* character for character, by the content of the table
C24_VerbatimContent ==
    (pc = "inlined" /\ Cardinality(InlinableTables) = 1) =>
        LET table == tables[CHOOSE i \in InlinableTables : TRUE]
            at == indexOf(markdown, placeholder(table.id), 1)
        IN  at # 0 =>
                result = SubSeq(markdown, 1, at - 1) \o table.content
                            \o SubSeq(markdown, at + Len(placeholder(table.id)),
                                      Len(markdown))

-----------------------------------------------------------------------------
(* Claims about App (SpecApp, SpecAppFair).                                *)

\* the calls of processDocument that have not finished
InFlight == {i \in 1..Len(runs) : runs[i].pc \in {"ocr", "zip"}}

\* C27: at most one conversion is in flight at any time: processDocument is not
\* started while an earlier call has not finished
C27_OneInFlight == Cardinality(InFlight) <= 1

\* C28: an output bundle is present only when the status is complete
C28_OutputOnlyWhenComplete == state.status # "complete" => state.outputZip = NoOutput

\* C29: the bundle offered for download belongs to one file: its OCR result is an
\* OCR result of that file, and its title and its download name are made of the
\* name of that file
C29_BundleOfItsFile ==
    state.outputZip # NoOutput =>
        \E f \in Files :
            /\ \E o \in performOCR(f) :
                  /\ ~o.threw
                  /\ ~generateOutputZip(o.value, f.name).threw
                  /\ state.outputZip = generateOutputZip(o.value, f.name).value
            /\ state.outputFileName =
                  StripExtension(f.name) \o <<"-", "o", "c", "r", ".", "z", "i", "p">>

\* C22: when performOCR fails or output generation throws, processDocument ends
\* in status error with a non-empty message and no output bundle set, and a
\* bundle is set only by the step in which generateOutputZip has resolved
C22_FailureLeavesNoBundle ==
    [][ /\ (\E i \in 1..Len(runs) : runs[i].pc # "failed" /\ runs'[i].pc = "failed") =>
              /\ state'.status = "error"
              /\ state'.error # ""
              /\ state'.outputZip = NoOutput
        /\ (state'.outputZip # NoOutput /\ state'.outputZip # state.outputZip) =>
              \E i \in 1..Len(runs) : runs[i].pc = "zip" /\ runs'[i].pc = "complete"
      ]_vars

\* C30: every started conversion finishes: a busy status leads to the status
\* complete or error
C30_BusyEnds ==
    (state.status \in {"uploading", "processing", "converting"})
        ~> (state.status \in {"complete", "error"})

\* C30 witness: a conversion has finished while another one is still waiting for
\* its OCR result
C30_Witness ==
    /\ state.status \in {"complete", "error"}
    /\ \E i, j \in 1..Len(runs) :
          runs[i].pc \in {"complete", "failed"} /\ runs[j].pc = "ocr"

====
